---- MODULE Spec2Model ----
(***************************************************************************)
(* Model of the n-band semiconductor-Bloch-equation propagator of          *)
(* ccmt-regensburg/sbe (src/sbe/solver/solver_n_bands.py) and of the       *)
(* parameter handling it relies on.                                        *)
(*                                                                         *)
(* Numbers: real quantities are integers, complex quantities are pairs     *)
(* <<re, im>> of integers.  All physical quantities are taken in atomic    *)
(* units.  The density matrix is kept in units of a quarter occupation     *)
(* (a filled band is 4), which the linear equation of motion allows.       *)
(***************************************************************************)
EXTENDS Integers, Sequences, FiniteSets, TLC

(***************************************************************************)
(* Bounds of the model.                                                    *)
(***************************************************************************)
\* k-points per path
MaxNk1 == 3
\* number of paths
MaxNk2 == 2
\* the integrator may report failure only at time indices 0..MaxFailStep
MaxFailStep == 1

(***************************************************************************)
(* Complex arithmetic on pairs <<re, im>>.                                 *)
(***************************************************************************)
CZero == <<0, 0>>

CAdd(a, b) == <<a[1] + b[1], a[2] + b[2]>>

CSub(a, b) == <<a[1] - b[1], a[2] - b[2]>>

CMul(a, b) == <<a[1] * b[1] - a[2] * b[2], a[1] * b[2] + a[2] * b[1]>>

CScale(r, a) == <<r * a[1], r * a[2]>>

CConj(a) == <<a[1], 0 - a[2]>>

\* -1j * a
MinusJ(a) == <<a[2], 0 - a[1]>>

RECURSIVE CSum(_, _)
\* sum of f[0] .. f[hi]
CSum(f, hi) == IF hi < 0 THEN CZero ELSE CAdd(CSum(f, hi - 1), f[hi])

RECURSIVE ISum(_, _)
ISum(f, hi) == IF hi < 0 THEN 0 ELSE ISum(f, hi - 1) + f[hi]

Abs(x) == IF x < 0 THEN 0 - x ELSE x

\* the function f itself, with every value computed once
Evaluated(f) == f @@ <<>>

(***************************************************************************)
(* rhs_of_sbe: the four Liouville tensors of a path, [k][row][col].  The   *)
(* loops add -1j*d[k,i,j] at (m*n+i, m*n+j) for all m,i,j and subtract     *)
(* -1j*d[k,m,l] at (m*n+i, l*n+i) for all m,l,i; an entry (row, col) with  *)
(* row = m*n+i and col = l*n+j therefore collects the first term when      *)
(* l = m and the second when j = i.                                        *)
(***************************************************************************)
rhs_dipole_entry(n, d, row, col) ==
    LET m == row \div n
        i == row % n
        l == col \div n
        j == col % n
        first == IF l = m THEN MinusJ(d[i][j]) ELSE CZero
        second == IF j = i THEN MinusJ(d[m][l]) ELSE CZero
    IN  CSub(first, second)

\* rhs_e_entry with the band energies added instead of subtracted
rhs_e_entry_with_energy_sum(n, e, row, col) ==
    LET m == row \div n
        i == row % n
    IN  IF row = col THEN MinusJ(<<e[m] + e[i], 0>>) ELSE CZero

rhs_e_entry(n, e, row, col) ==
    LET m == row \div n
        i == row % n
    IN  IF row = col THEN MinusJ(<<e[m] - e[i], 0>>) ELSE CZero

\* rhs_gamma1_entry with the population damping on the coherences as well
rhs_gamma1_entry_on_every_entry(n, gamma1, row, col) ==
    IF row = col THEN <<0 - gamma1, 0>> ELSE CZero

rhs_gamma1_entry(n, gamma1, row, col) ==
    LET m == row \div n
        i == row % n
    IN  IF row = col /\ m = i THEN <<0 - gamma1, 0>> ELSE CZero

\* rhs_gamma2_entry with the dephasing rate on populations as well
rhs_gamma2_entry_on_every_entry(n, gamma2, row, col) ==
    IF row = col THEN <<0 - gamma2, 0>> ELSE CZero

rhs_gamma2_entry(n, gamma2, row, col) ==
    LET m == row \div n
        i == row % n
    IN  IF row = col /\ m # i THEN <<0 - gamma2, 0>> ELSE CZero

rhs_of_sbe(n, Nk1, dipole_in_path, e_in_path, gamma1, gamma2) ==
    LET K == 0 .. (Nk1 - 1)
        R == 0 .. (n * n - 1)
    IN  [rhs_dipole |-> [k \in K |-> [r \in R |-> [c \in R |->
                            rhs_dipole_entry(n, dipole_in_path[k], r, c)]]],
         rhs_e      |-> [k \in K |-> [r \in R |-> [c \in R |->
                            rhs_e_entry(n, e_in_path[k], r, c)]]],
         rhs_gamma1 |-> [k \in K |-> [r \in R |-> [c \in R |->
                            rhs_gamma1_entry(n, gamma1, r, c)]]],
         rhs_gamma2 |-> [k \in K |-> [r \in R |-> [c \in R |->
                            rhs_gamma2_entry(n, gamma2, r, c)]]]]

(***************************************************************************)
(* The driving field E(t) = E0 * envelope(t) * carrier(t).  On the integer *)
(* grid the Gaussian envelope is 1 within the pulse width alpha of the     *)
(* pulse centre t = 0 and 0 outside, and the carrier is 1.                 *)
(***************************************************************************)
electric_field(E0, alpha, t) == IF Abs(t) <= alpha THEN E0 ELSE 0

(***************************************************************************)
(* make_fnumba / fnumba: the right-hand side of the equation of motion.    *)
(* The closure keeps n and the field; gauge and do_semicl are accepted by  *)
(* make_fnumba and not used by fnumba.  dk is the fraction                 *)
(* <<numerator, denominator>>.  y, y0 and the result are functions on      *)
(* 0 .. Nk1*n*n, the last component being the vector potential.            *)
(***************************************************************************)
fnumba_gradient_coefficient(electric_f, dk) == (electric_f * dk[2]) \div (2 * dk[1])

fnumba_forward(k, Nk1) == IF k = 0 THEN k + 1 ELSE IF k = Nk1 - 1 THEN 0 ELSE k + 1

fnumba_backward(k, Nk1) == IF k = 0 THEN Nk1 - 1 ELSE IF k = Nk1 - 1 THEN k - 1 ELSE k - 1

\* y[b*(n**2):(b+1)*(n**2)]: the indices of the slice; a slice ends where y ends
fnumba_slice(b, nn, len) == {idx \in (b * nn) .. ((b + 1) * nn - 1) : idx < len}

\* entry r of that slice in y[i_k...] - y[j_k...]: a slice of one entry is
\* broadcast to the length of the other
fnumba_slice_entry(y, b, nn, len, r) ==
    IF Cardinality(fnumba_slice(b, nn, len)) = nn THEN y[b * nn + r] ELSE y[b * nn]

\* line 305: the state components read as forward and backward neighbours
fnumba_gradient_reads(n, Nk1) ==
    [k \in 0 .. (Nk1 - 1) |->
        [forward  |-> fnumba_slice(fnumba_forward(k, Nk1), n * n, Nk1 * n * n + 1),
         backward |-> fnumba_slice(fnumba_backward(k, Nk1), n * n, Nk1 * n * n + 1)]]

\* line 305: D*(y[i_k...] - y[j_k...]) for every k-point of the path
fnumba_gradient(n, electric_f, y, Nk1, dk) ==
    LET nn == n * n
        len == Nk1 * nn + 1
        D == fnumba_gradient_coefficient(electric_f, dk)
    IN  [idx \in 0 .. (Nk1 * nn - 1) |->
            LET k == idx \div nn
                r == idx % nn
            IN  CScale(D, CSub(fnumba_slice_entry(y, fnumba_forward(k, Nk1), nn, len, r),
                               fnumba_slice_entry(y, fnumba_backward(k, Nk1), nn, len, r)))]

fnumba(n, electric_f, y, rhs, y0, Nk1, dk) ==
    LET nn == n * n
        linear(k, r) ==
            CSum([c \in 0 .. (nn - 1) |->
                    CMul(CAdd(CAdd(CScale(electric_f, rhs.rhs_dipole[k][r][c]),
                                   rhs.rhs_e[k][r][c]),
                              rhs.rhs_gamma2[k][r][c]),
                         y[k * nn + c])], nn - 1)
        gradient(k, r) == fnumba_gradient(n, electric_f, y, Nk1, dk)[k * nn + r]
        relax(k, r) ==
            CSum([c \in 0 .. (nn - 1) |->
                    CMul(rhs.rhs_gamma1[k][r][c],
                         CSub(y[k * nn + c], y0[k * nn + c]))], nn - 1)
    IN  [idx \in 0 .. (Nk1 * nn) |->
            IF idx = Nk1 * nn
            THEN <<0 - electric_f, 0>>
            ELSE LET k == idx \div nn
                     r == idx % nn
                 IN  CAdd(CAdd(linear(k, r), gradient(k, r)), relax(k, r))]

(***************************************************************************)
(* initial_condition: equilibrium occupation of every band at every        *)
(* k-point, coherences zero, flattened in C order.  A filled band is 4;    *)
(* the Fermi-Dirac value is 3, 2 or 1 quarters for an energy below, at or  *)
(* above the Fermi energy.  Temperatures are counted in units of 1e-5, the  *)
(* value line 362 compares with.                                           *)
(***************************************************************************)
fermi_dirac(x) == IF x < 0 THEN 3 ELSE IF x = 0 THEN 2 ELSE 1

\* line 362: temperature > 1e-5
temperature_threshold == 1

\* distrib_bands with a band at the Fermi energy counted as filled
distrib_bands_filled_at_fermi_energy(e_fermi, temperature, e) ==
    IF temperature > temperature_threshold
    THEN fermi_dirac(e - e_fermi)
    ELSE IF e_fermi - e >= 0 THEN 4 ELSE 0

distrib_bands(e_fermi, temperature, e) ==
    IF temperature > temperature_threshold
    THEN fermi_dirac(e - e_fermi)
    ELSE IF e_fermi - e > 0 THEN 4 ELSE 0

initial_condition(n, Nk1, e_fermi, temperature, e_in_path) ==
    [idx \in 0 .. (Nk1 * n * n - 1) |->
        LET k == idx \div (n * n)
            m == (idx % (n * n)) \div n
            i == idx % n
        IN  IF m = i
            THEN <<distrib_bands(e_fermi, temperature, e_in_path[k][m]), 0>>
            ELSE CZero]

\* np.append(y0, [1.0]): the extra component starting at 1
append_A_starting_at_one(y0, len) ==
    [idx \in 0 .. len |-> IF idx = len THEN <<1, 0>> ELSE y0[idx]]

\* y0 = np.append(y0, [0.0])
append_A(y0, len) == [idx \in 0 .. len |-> IF idx = len THEN CZero ELSE y0[idx]]

(***************************************************************************)
(* The band structure handed to the solver: the energy callables           *)
(* sys.efjit[b] and the dipole callables dipole.Axfjit[i][j],              *)
(* dipole.Ayfjit[i][j], evaluated at k-point k of path p (paths are        *)
(* numbered 1 .. Nk2).  A two-band structure whose gap closes at every     *)
(* second k-point; the off-diagonal dipole differs from path to path.      *)
(***************************************************************************)
sys_efjit(b, p, k) == IF b = 0 THEN 0 - ((p + k) % 2) ELSE 0

dipole_Axfjit(i, j, p, k) ==
    IF i = j THEN <<IF i = 0 THEN k % 2 ELSE 0 - (k % 2), 0>>
    ELSE IF i < j THEN <<1, p - 1>> ELSE <<1, 1 - p>>

dipole_Ayfjit(i, j, p, k) ==
    IF i = j THEN CZero
    ELSE IF i < j THEN <<p, 1>> ELSE <<p, 0 - 1>>

\* field direction for BZ_type 'full', align 'K'
E_dir == <<1, 0>>

\* direction orthogonal to the field
E_ort == <<E_dir[2], 0 - E_dir[1]>>

(***************************************************************************)
(* Band energies and projected dipole of a path, as sbe_solver_n_bands     *)
(* assembles them (analytic branch: the four entries of a 2x2 matrix are   *)
(* assigned from the callables, [1,0] as the conjugate of [0,1]).          *)
(***************************************************************************)
analytic_dipole_in_path(Nk1, p) ==
    [k \in 0 .. (Nk1 - 1) |->
        LET d01 == CAdd(CScale(E_dir[1], dipole_Axfjit(0, 1, p, k)),
                        CScale(E_dir[2], dipole_Ayfjit(0, 1, p, k)))
            d00 == CAdd(CScale(E_dir[1], dipole_Axfjit(0, 0, p, k)),
                        CScale(E_dir[2], dipole_Ayfjit(0, 0, p, k)))
            d11 == CAdd(CScale(E_dir[1], dipole_Axfjit(1, 1, p, k)),
                        CScale(E_dir[2], dipole_Ayfjit(1, 1, p, k)))
        IN  [i \in 0 .. 1 |-> [j \in 0 .. 1 |->
                IF i = 0 /\ j = 1 THEN d01
                ELSE IF i = 1 /\ j = 0 THEN CConj(d01)
                ELSE IF i = 0 THEN d00 ELSE d11]]]

analytic_e_in_path(Nk1, p) ==
    [k \in 0 .. (Nk1 - 1) |-> [b \in 0 .. 1 |-> sys_efjit(b, p, k)]]

(***************************************************************************)
(* dipole_elements(Nk1, Nk2, n, paths, 0, epsilon): the numerical dipole   *)
(* evaluator, giving for every path position the dipole matrices of the    *)
(* path at that position; consistent with the analytic dipoles.            *)
(***************************************************************************)
dipole_elements_projected(Nk1, paths_, position) ==
    analytic_dipole_in_path(Nk1, paths_[position + 1])

(***************************************************************************)
(* current_in_path_dipole: the exact emission current and the intraband    *)
(* current of one path from its stored density matrices sol[ti] (a state   *)
(* vector without the vector potential), per time index a pair             *)
(* <<field direction, orthogonal>> of complex numbers.                     *)
(***************************************************************************)
rho(n, y, k, i, j) == y[k * n * n + i * n + j]

interband_term(n, Nk1, y, d, e) ==
    CSum([k \in 0 .. (Nk1 - 1) |->
            CSum([r \in 0 .. (n * n - 1) |->
                    LET i == r \div n
                        j == r % n
                    IN  IF i = j THEN CZero
                        ELSE CScale(e[k][j] - e[k][i],
                                    CMul(d[k][i][j], rho(n, y, k, j, i)))],
                 n * n - 1)],
         Nk1 - 1)

intraband_term(n, Nk1, y, e) ==
    CSum([k \in 0 .. (Nk1 - 1) |->
            CSum([m \in 0 .. (n - 1) |->
                    CScale(e[(k + 1) % Nk1][m] - e[(k + Nk1 - 1) % Nk1][m],
                           rho(n, y, k, m, m))],
                 n - 1)],
         Nk1 - 1)

polarization_term(n, Nk1, y, d) ==
    CSum([k \in 0 .. (Nk1 - 1) |->
            CSum([r \in 0 .. (n * n - 1) |->
                    LET i == r \div n
                        j == r % n
                    IN  IF i = j THEN CZero
                        ELSE CMul(d[k][i][j], rho(n, y, k, j, i))],
                 n * n - 1)],
         Nk1 - 1)

ortho_dipole_in_path(Nk1, p) ==
    [k \in 0 .. (Nk1 - 1) |-> [i \in 0 .. 1 |-> [j \in 0 .. 1 |->
        CAdd(CScale(E_ort[1], dipole_Axfjit(i, j, p, k)),
             CScale(E_ort[2], dipole_Ayfjit(i, j, p, k)))]]]

current_in_path_dipole(n, Nk1, Nt, sol, p, dipole_in_path, e_in_path) ==
    [current_path |-> Evaluated(
        [ti \in 0 .. (Nt - 1) |->
            <<CAdd(MinusJ(interband_term(n, Nk1, sol[ti], dipole_in_path, e_in_path)),
                   intraband_term(n, Nk1, sol[ti], e_in_path)),
              MinusJ(interband_term(n, Nk1, sol[ti], ortho_dipole_in_path(Nk1, p),
                                    e_in_path))>>]),
     current_path_intraband |-> Evaluated(
        [ti \in 0 .. (Nt - 1) |->
            <<intraband_term(n, Nk1, sol[ti], e_in_path), CZero>>])]

\* make_polarization_path: interband polarization of one path
polarization_in_path(n, Nk1, Nt, sol, p, dipole_in_path) ==
    Evaluated([ti \in 0 .. (Nt - 1) |->
        <<polarization_term(n, Nk1, sol[ti], dipole_in_path),
          polarization_term(n, Nk1, sol[ti], ortho_dipole_in_path(Nk1, p))>>])

(***************************************************************************)
(* State of one run of sbe_solver_n_bands.                                 *)
(***************************************************************************)
VARIABLES
    params,      \* the parameter record (read only)
    paths,       \* the paths of the mesh, in processing order
    pc,          \* "start", "path", "loop", "done", "crashed"
    warned,      \* the time-window warning has been printed
    Nt,          \* number of time steps
    position,    \* index of the path in enumerate(paths), before line 139
    Nk2_idx,     \* index of the path in the solution container
    path_data,   \* dipole_in_path, e_in_path, Liouville tensors, y0
    solver,      \* the ode object: t, y, success flag
    ti,          \* index of the current time step
    solution,    \* [Nk2_idx][ti] -> stored density matrices
    stored,      \* the entries <<Nk2_idx, ti>> of solution written so far
    t,           \* the entries of the time array written so far
    A_field,     \* the entries of A_field written so far
    E_field,     \* the entries of E_field written so far
    t_constructed,
    emission_exact_path_full,
    emission_path_intraband,
    containers,  \* I_exact_E_dir, I_exact_ortho, J_*, P_* of solution_containers
    written,     \* the call of write_current_emission and its arguments
    history,     \* what the run has done: failed and accumulated paths, integrate calls
    rhs_case,    \* one evaluation of the right-hand side on its own: inputs and result
    parser,      \* one run of a parameter parser: user parameters, progress, outcome
    spectrum,    \* one pass of the spectral post-processing: grid, signal, result
    system,      \* one construction of a band-structure system: attributes, progress
    sweep        \* one chirp and phase sweep: loop position, directory, solver calls

vars_of_run == <<params, paths, pc, warned, Nt, position, Nk2_idx, path_data, solver, ti,
                 solution, stored, t, A_field, E_field, t_constructed,
                 emission_exact_path_full, emission_path_intraband, containers, written,
                 history>>

vars == <<params, paths, pc, warned, Nt, position, Nk2_idx, path_data, solver, ti,
          solution, stored, t, A_field, E_field, t_constructed,
          emission_exact_path_full, emission_path_intraband, containers, written,
          history, rhs_case, parser, spectrum, system, sweep>>

\* line 196: progress is printed every Nt//20 steps
progress_parts == 20

\* the parameter records offered to a run: one start time with an integer
\* time window and one too short for the progress output, every flag
ParamSpace ==
    [t0 : {0 - 30, 0 - 3}, dt : {3}, n : {2}, Nk1 : {MaxNk1}, Nk2 : {MaxNk2},
     save_full : BOOLEAN, save_approx : BOOLEAN, dipole_numerics : BOOLEAN,
     E0 : {0, 2}, alpha : {1}, gamma1 : {0, 1}, gamma2 : {0, 1},
     e_fermi : {0}, temperature : {0}]

\* the parameter records of the runs that vary the time grid: start times of
\* either sign, with and without an integer time window, two time steps
GridParamSpace ==
    [t0 : {0 - 30, 0 - 31, 30, 31, 0 - 41, 0 - 3, 0}, dt : {3, 4},
     n : {2}, Nk1 : {MaxNk1}, Nk2 : {MaxNk2},
     save_full : {FALSE}, save_approx : {FALSE}, dipole_numerics : {FALSE},
     E0 : {0}, alpha : {1}, gamma1 : {1}, gamma2 : {1},
     e_fermi : {0}, temperature : {0}]

\* the parameter records of the runs without a driving field
FieldFreeParamSpace ==
    {P \in [t0 : {0 - 30, 0 - 3}, dt : {3}, n : {2}, Nk1 : {MaxNk1}, Nk2 : {MaxNk2},
            save_full : BOOLEAN, save_approx : {FALSE}, dipole_numerics : {FALSE},
            E0 : {0}, alpha : {1}, gamma1 : {0, 1}, gamma2 : {0, 1},
            e_fermi : {0}, temperature : {2}] :
        P.save_full => (P.gamma1 = 1 /\ P.gamma2 = 1)}

\* the parameter records of the runs driven by a pulse, with damping on
DrivenParamSpace ==
    [t0 : {0 - 30, 0 - 3}, dt : {3}, n : {2}, Nk1 : {MaxNk1}, Nk2 : {MaxNk2},
     save_full : BOOLEAN, save_approx : {FALSE}, dipole_numerics : {FALSE},
     E0 : {2}, alpha : {1}, gamma1 : {1}, gamma2 : {1},
     e_fermi : {0}, temperature : {0}]

\* all orders in which a mesh of Nk2 paths can list its paths
PathOrders(Nk2) ==
    {s \in [1 .. Nk2 -> 1 .. Nk2] : \A a, b \in 1 .. Nk2 : a # b => s[a] # s[b]}

\* number of components of the density matrices of one path
StateLen(P) == P.Nk1 * P.n * P.n

ZeroState(len) == [idx \in 0 .. (len - 1) |-> CZero]

ZeroSeries(N) == [i \in 0 .. (N - 1) |-> <<CZero, CZero>>]

\* what an entry of an np.empty container may hold
GarbageStates(len) ==
    {ZeroState(len), [idx \in 0 .. (len - 1) |-> IF idx = 1 THEN <<1, 1>> ELSE CZero]}

\* the parts of the program that a specification does not exercise
parser_idle == [outcome |-> "idle"]

spectrum_idle == [outcome |-> "idle"]

system_idle == [outcome |-> "idle"]

sweep_idle == [outcome |-> "idle"]

RunInit(space) ==
    /\ params \in space
    /\ rhs_case = [evaluated |-> FALSE]
    /\ parser = parser_idle
    /\ spectrum = spectrum_idle
    /\ system = system_idle
    /\ sweep = sweep_idle
    /\ paths \in PathOrders(MaxNk2)
    /\ pc = "start"
    /\ warned = FALSE
    /\ Nt = 0
    /\ position = 0
    /\ Nk2_idx = 0
    /\ path_data = <<>>
    /\ solver = <<>>
    /\ ti = 0
    /\ solution = <<>>
    /\ stored = {}
    /\ t = <<>>
    /\ A_field = <<>>
    /\ E_field = <<>>
    /\ t_constructed = FALSE
    /\ emission_exact_path_full = <<>>
    /\ emission_path_intraband = <<>>
    /\ containers = <<>>
    /\ written = [called |-> FALSE]
    /\ history = [failed |-> {}, accumulated |-> {}, integrate_calls |-> 0,
                  integrate_target |-> params.t0]

\* the state of a run that has not been started
RunIdle ==
    /\ params = [n |-> 2]
    /\ paths = <<>>
    /\ pc = "idle"
    /\ warned = FALSE
    /\ Nt = 0
    /\ position = 0
    /\ Nk2_idx = 0
    /\ path_data = <<>>
    /\ solver = <<>>
    /\ ti = 0
    /\ solution = <<>>
    /\ stored = {}
    /\ t = <<>>
    /\ A_field = <<>>
    /\ E_field = <<>>
    /\ t_constructed = FALSE
    /\ emission_exact_path_full = <<>>
    /\ emission_path_intraband = <<>>
    /\ containers = <<>>
    /\ written = [called |-> FALSE]
    /\ history = [failed |-> {}, accumulated |-> {}, integrate_calls |-> 0,
                  integrate_target |-> 0]

Init == RunInit(ParamSpace)

InitGrid == RunInit(GridParamSpace)

InitFieldFree == RunInit(FieldFreeParamSpace)

InitDriven == RunInit(DrivenParamSpace)

(***************************************************************************)
(* Lines 46-54: number of time steps and the time-window warning.          *)
(***************************************************************************)
\* numerator of the fractional part modf(a/b)[0], which has the sign of a/b
modf_fraction(a, b) == IF a >= 0 THEN a % b ELSE 0 - ((0 - a) % b)

\* time_steps without the step that includes the end point
time_steps_without_endpoint(t0, dt) == Abs(2 * t0) \div dt

time_steps(t0, dt) == (Abs(2 * t0) \div dt) + 1

window_warning(t0, dt) == modf_fraction(2 * t0, dt) > 0

(***************************************************************************)
(* Lines 112-125: solution_containers and the path accumulators.           *)
(***************************************************************************)
solution_containers(Nt_, save_approx) ==
    [I_exact_E_dir |-> [i \in 0 .. (Nt_ - 1) |-> CZero],
     I_exact_ortho |-> [i \in 0 .. (Nt_ - 1) |-> CZero],
     J_E_dir |-> IF save_approx THEN [i \in 0 .. (Nt_ - 1) |-> CZero] ELSE <<>>,
     J_ortho |-> IF save_approx THEN [i \in 0 .. (Nt_ - 1) |-> CZero] ELSE <<>>,
     P_E_dir |-> IF save_approx THEN [i \in 0 .. (Nt_ - 1) |-> CZero] ELSE <<>>,
     P_ortho |-> IF save_approx THEN [i \in 0 .. (Nt_ - 1) |-> CZero] ELSE <<>>]

\* lines 17-134: everything before the loop over the paths
Setup ==
    /\ pc = "start"
    /\ warned' = window_warning(params.t0, params.dt)
    /\ Nt' = time_steps(params.t0, params.dt)
    /\ containers' = solution_containers(Nt', params.save_approx)
    /\ solution' = [s \in 0 .. (IF params.save_full THEN params.Nk2 - 1 ELSE 0) |->
                        [i \in 0 .. (Nt' - 1) |-> ZeroState(StateLen(params))]]
    /\ emission_exact_path_full' = ZeroSeries(Nt')
    /\ emission_path_intraband' = ZeroSeries(Nt')
    /\ pc' = "path"
    /\ UNCHANGED <<parser, spectrum, system, sweep, rhs_case, params, paths, position, Nk2_idx, path_data, solver, ti, stored, t,
                   A_field, E_field, t_constructed, written, history>>

(***************************************************************************)
(* Lines 135-187: head of the loop over the paths: the band structure of   *)
(* the path, its Liouville tensors, its initial condition, and the reset   *)
(* of the integrator.                                                      *)
(***************************************************************************)
\* line 89: dk = 1/Nk1
mesh_dk(Nk1) == <<1, Nk1>>

path_dipole(P, paths_, position_, idx) ==
    IF P.dipole_numerics
    THEN dipole_elements_projected(P.Nk1, paths_, idx)
    ELSE analytic_dipole_in_path(P.Nk1, paths_[position_ + 1])

BeginPath ==
    /\ pc = "path"
    /\ position < Len(paths)
    /\ LET idx == IF params.save_full THEN position ELSE 0
           d == path_dipole(params, paths, position, idx)
           e == analytic_e_in_path(params.Nk1, paths[position + 1])
           y0 == append_A(initial_condition(params.n, params.Nk1, params.e_fermi,
                                            params.temperature, e),
                          StateLen(params))
       IN  /\ Nk2_idx' = idx
           /\ path_data' = [dipole_in_path |-> d, e_in_path |-> e,
                            rhs |-> rhs_of_sbe(params.n, params.Nk1, d, e,
                                               params.gamma1, params.gamma2),
                            y0 |-> y0]
           /\ solver' = [t |-> params.t0, y |-> y0, ok |-> TRUE]
    /\ ti' = 0
    /\ history' = [history EXCEPT !.integrate_calls = 0]
    /\ pc' = "loop"
    /\ UNCHANGED <<parser, spectrum, system, sweep, rhs_case, params, paths, warned, Nt, position, solution, stored, t, A_field,
                   E_field, t_constructed, emission_exact_path_full,
                   emission_path_intraband, containers, written>>

(***************************************************************************)
(* Lines 194-214: one iteration of the propagation loop.  The progress     *)
(* test of line 196 divides by Nt//20 whatever user_out is; then the       *)
(* snapshot is stored, on the first path the time array, A_field and       *)
(* E_field are extended, and the integrator is asked to advance by dt.     *)
(***************************************************************************)
\* scipy's ode.integrate over one step h from state y with derivative f
integrate(y, f, h) == Evaluated([idx \in DOMAIN y |-> CAdd(y[idx], CScale(h, f[idx]))])

density_part(y, len) == [idx \in 0 .. (len - 1) |-> y[idx]]

loop_condition == solver.ok /\ ti < Nt

StoreSnapshot ==
    /\ solution' = [solution EXCEPT ![Nk2_idx][ti] = density_part(solver.y, StateLen(params))]
    /\ stored' = stored \cup {<<Nk2_idx, ti>>}
    /\ IF ~t_constructed
       THEN /\ t' = Append(t, solver.t)
            /\ A_field' = Append(A_field, solver.y[StateLen(params)][1])
            /\ E_field' = Append(E_field, electric_field(params.E0, params.alpha, solver.t))
       ELSE UNCHANGED <<t, A_field, E_field>>

count_integrate ==
    history' = [history EXCEPT !.integrate_calls = @ + 1,
                               !.integrate_target = solver.t + params.dt]

StepOk ==
    /\ pc = "loop"
    /\ loop_condition
    /\ Nt \div progress_parts # 0
    /\ StoreSnapshot
    /\ solver' = [solver EXCEPT
                    !.y = integrate(solver.y,
                                    fnumba(params.n,
                                           electric_field(params.E0, params.alpha, solver.t),
                                           solver.y, path_data.rhs, path_data.y0,
                                           params.Nk1, mesh_dk(params.Nk1)),
                                    params.dt),
                    !.t = solver.t + params.dt]
    /\ count_integrate
    /\ ti' = ti + 1
    /\ UNCHANGED <<parser, spectrum, system, sweep, rhs_case, params, paths, pc, warned, Nt, position, Nk2_idx, path_data,
                   t_constructed, emission_exact_path_full, emission_path_intraband,
                   containers, written>>

\* the integrator reports failure: solver.successful() is false afterwards
StepFail ==
    /\ pc = "loop"
    /\ loop_condition
    /\ Nt \div progress_parts # 0
    /\ ti <= MaxFailStep
    /\ StoreSnapshot
    /\ solver' = [solver EXCEPT !.ok = FALSE]
    /\ history' = [history EXCEPT !.integrate_calls = @ + 1,
                                  !.integrate_target = solver.t + params.dt,
                                  !.failed = @ \cup {position}]
    /\ ti' = ti + 1
    /\ UNCHANGED <<parser, spectrum, system, sweep, rhs_case, params, paths, pc, warned, Nt, position, Nk2_idx, path_data,
                   t_constructed, emission_exact_path_full, emission_path_intraband,
                   containers, written>>

\* line 196 with Nt < 20: ti % 0 raises ZeroDivisionError and the run ends
StepCrash ==
    /\ pc = "loop"
    /\ loop_condition
    /\ Nt \div progress_parts = 0
    /\ pc' = "crashed"
    /\ UNCHANGED <<parser, spectrum, system, sweep, rhs_case, params, paths, warned, Nt, position, Nk2_idx, path_data, solver, ti,
                   solution, stored, t, A_field, E_field, t_constructed,
                   emission_exact_path_full, emission_path_intraband, containers,
                   written, history>>

(***************************************************************************)
(* Lines 216-224: after the propagation loop of a path, whatever ended it: *)
(* the path's currents are computed from the solution container and added  *)
(* to the accumulators.  Entries of the container never written are read   *)
(* as they are.                                                            *)
(***************************************************************************)
add_series(acc, c, N) ==
    [i \in 0 .. (N - 1) |-> <<CAdd(acc[i][1], c[i][1]), CAdd(acc[i][2], c[i][2])>>]

container_as_read(g) ==
    [i \in 0 .. (Nt - 1) |->
        IF <<Nk2_idx, i>> \in stored THEN solution[Nk2_idx][i] ELSE g]

EndPath ==
    /\ pc = "loop"
    /\ ~loop_condition
    /\ \E g \in GarbageStates(StateLen(params)) :
        \E c \in {current_in_path_dipole(params.n, params.Nk1, Nt, container_as_read(g),
                                         paths[position + 1], path_data.dipole_in_path,
                                         path_data.e_in_path)} :
            /\ emission_exact_path_full' =
                   add_series(emission_exact_path_full, c.current_path, Nt)
            /\ emission_path_intraband' =
                   add_series(emission_path_intraband, c.current_path_intraband, Nt)
    /\ t_constructed' = TRUE
    /\ history' = [history EXCEPT !.accumulated = @ \cup {position}]
    /\ position' = position + 1
    /\ pc' = "path"
    /\ UNCHANGED <<parser, spectrum, system, sweep, rhs_case, params, paths, warned, Nt, Nk2_idx, path_data, solver, ti, solution,
                   stored, t, A_field, E_field, containers, written>>

(***************************************************************************)
(* Lines 225-247: after the loop over the paths the accumulated series are *)
(* bound to names and the containers are handed to write_current_emission. *)
(***************************************************************************)
column(series, c, N) == [i \in 0 .. (N - 1) |-> series[i][c]]

\* the names bound by lines 225-228 and the arguments of the call of line 235
bind_results(cont, exact, intraband, N) ==
    LET I_exact_E_dir == column(exact, 1, N)
        I_exact_orth == column(exact, 2, N)
        J_E_dir == column(intraband, 1, N)
        J_ortho == column(intraband, 2, N)
    IN  [I_exact_E_dir |-> I_exact_E_dir, I_exact_ortho |-> cont.I_exact_ortho,
         J_E_dir |-> J_E_dir, J_ortho |-> J_ortho,
         P_E_dir |-> cont.P_E_dir, P_ortho |-> cont.P_ortho]

WriteOutput ==
    /\ pc = "path"
    /\ position = Len(paths)
    /\ containers' = bind_results(containers, emission_exact_path_full,
                                  emission_path_intraband, Nt)
    /\ written' = [called |-> TRUE, t |-> t, args |-> containers',
                   save_approx |-> params.save_approx]
    /\ pc' = "done"
    /\ UNCHANGED <<parser, spectrum, system, sweep, rhs_case, params, paths, warned, Nt, position, Nk2_idx, path_data, solver, ti,
                   solution, stored, t, A_field, E_field, t_constructed,
                   emission_exact_path_full, emission_path_intraband, history>>

Next ==
    \/ Setup
    \/ BeginPath
    \/ StepOk
    \/ StepFail
    \/ StepCrash
    \/ EndPath
    \/ WriteOutput

Spec == Init /\ [][Next]_vars

\* the runs that vary the time grid
SpecGrid == InitGrid /\ [][Next]_vars

\* the runs without a driving field
SpecFieldFree == InitFieldFree /\ [][Next]_vars

\* the runs driven by a pulse
SpecDriven == InitDriven /\ [][Next]_vars

(***************************************************************************)
(* The right-hand side on its own: make_fnumba builds fnumba for a band    *)
(* count, a gauge and the do_semicl flag; fnumba is evaluated on Liouville *)
(* tensors built by rhs_of_sbe for a band structure, at a state y that     *)
(* need not be an equilibrium state, and the state is advanced by the      *)
(* derivative.                                                             *)
(***************************************************************************)
\* k-points of the path the right-hand side is evaluated on
RhsNk1 == 3
\* number of times the state is advanced by its derivative
MaxRhsSteps == 2

\* lines 275-313: the closure keeps n; gauge is validated; do_semicl is not used
make_fnumba(n, gauge, do_semicl) ==
    [n |-> n, raises |-> gauge \notin {"length", "velocity"}]

\* band energies: a constant gap, a gap closing at every second k-point, no gap
rhs_energies(variant, Nk1) ==
    [k \in 0 .. (Nk1 - 1) |-> [b \in 0 .. 1 |->
        IF variant = 0 THEN (IF b = 0 THEN 0 - 1 ELSE 1)
        ELSE IF variant = 1 THEN (IF b = 0 THEN 0 - (k % 2) ELSE k % 2)
        ELSE 0]]

\* Hermitian dipole matrices: none, real, imaginary and k-dependent
\* off-diagonal elements, with or without Berry connections on the diagonal
rhs_dipoles(variant, Nk1) ==
    [k \in 0 .. (Nk1 - 1) |-> [i \in 0 .. 1 |-> [j \in 0 .. 1 |->
        LET off == IF variant = 0 THEN CZero
                   ELSE IF variant = 1 THEN <<1, 0>>
                   ELSE IF variant = 2 THEN <<0, 1>>
                   ELSE <<1 + k, 1>>
        IN  IF i = j THEN <<(variant % 2) * (IF i = 0 THEN 1 ELSE 0 - 1), 0>>
            ELSE IF i < j THEN off ELSE CConj(off)]]]

\* density matrices, row-major: an equilibrium one, a Hermitian one with
\* coherences, one that is not Hermitian, and zero
rhs_density(c) ==
    IF c = 0 THEN <<<<4, 0>>, CZero, CZero, CZero>>
    ELSE IF c = 1 THEN <<<<2, 0>>, <<1, 1>>, <<1, 0 - 1>>, <<2, 0>>>>
    ELSE IF c = 2 THEN <<<<1, 0>>, <<2, 0>>, CZero, <<0, 3>>>>
    ELSE <<CZero, CZero, CZero, CZero>>

rhs_states(first, stride, Nk1) ==
    [idx \in 0 .. (Nk1 * 4) |->
        IF idx = Nk1 * 4 THEN CZero
        ELSE rhs_density((first + stride * (idx \div 4)) % 4)[(idx % 4) + 1]]

RhsCases ==
    {[n |-> 2, Nk1 |-> RhsNk1, gauge |-> "length", do_semicl |-> semicl,
      dipole_in_path |-> rhs_dipoles(dv, RhsNk1), e_in_path |-> rhs_energies(ev, RhsNk1),
      gamma1 |-> g1, gamma2 |-> g2, electric_f |-> E,
      y0 |-> append_A(initial_condition(2, RhsNk1, 0, temp, rhs_energies(ev, RhsNk1)),
                      RhsNk1 * 4),
      start |-> rhs_states(first, stride, RhsNk1),
      y |-> rhs_states(first, stride, RhsNk1),
      x |-> rhs_states(3, 0, RhsNk1), evaluated |-> FALSE, steps |-> 0,
      BZ_type |-> "full", dk |-> mesh_dk(RhsNk1),
      gradient |-> <<>>, gradient_reads |-> <<>>, tensors |-> <<>>, built |-> 0] :
        semicl \in BOOLEAN, dv \in 0 .. 3, ev \in 0 .. 2, g1 \in {0, 1}, g2 \in {0, 1},
        E \in {0, 2}, temp \in {0, 2}, first \in 0 .. 3, stride \in {0, 1}}

InitRhs ==
    /\ RunIdle
    /\ parser = parser_idle
    /\ spectrum = spectrum_idle
    /\ system = system_idle
    /\ sweep = sweep_idle
    /\ rhs_case \in RhsCases

rhs_case_tensors(c) ==
    rhs_of_sbe(c.n, c.Nk1, c.dipole_in_path, c.e_in_path, c.gamma1, c.gamma2)

\* line 178 with the tensors built again whenever the right-hand side is due
RhsBuild_before_every_evaluation ==
    /\ pc = "idle"
    /\ ~rhs_case.evaluated
    /\ rhs_case.built <= rhs_case.steps
    /\ rhs_case' = [rhs_case EXCEPT !.tensors = rhs_case_tensors(rhs_case),
                                    !.built = @ + 1]
    /\ UNCHANGED <<vars_of_run, parser, spectrum, system, sweep>>

\* line 178: the tensors of the path are built in the head of the path loop,
\* before set_f_params hands them to the integrator; built counts the calls
RhsBuild ==
    /\ pc = "idle"
    /\ rhs_case.built = 0
    /\ rhs_case' = [rhs_case EXCEPT !.tensors = rhs_case_tensors(rhs_case),
                                    !.built = @ + 1]
    /\ UNCHANGED <<vars_of_run, parser, spectrum, system, sweep>>

RhsEvaluate ==
    /\ pc = "idle"
    /\ rhs_case.built > 0
    /\ ~rhs_case.evaluated
    /\ ~make_fnumba(rhs_case.n, rhs_case.gauge, rhs_case.do_semicl).raises
    /\ rhs_case' = [rhs_case EXCEPT
                      !.x = fnumba(make_fnumba(rhs_case.n, rhs_case.gauge,
                                               rhs_case.do_semicl).n,
                                   rhs_case.electric_f, rhs_case.y,
                                   rhs_case.tensors, rhs_case.y0,
                                   rhs_case.Nk1, rhs_case.dk),
                      !.gradient = fnumba_gradient(rhs_case.n, rhs_case.electric_f,
                                                   rhs_case.y, rhs_case.Nk1, rhs_case.dk),
                      !.gradient_reads = fnumba_gradient_reads(rhs_case.n, rhs_case.Nk1),
                      !.evaluated = TRUE]
    /\ UNCHANGED <<vars_of_run, parser, spectrum, system, sweep>>

RhsAdvance ==
    /\ pc = "idle"
    /\ rhs_case.evaluated
    /\ rhs_case.steps < MaxRhsSteps
    /\ rhs_case' = [rhs_case EXCEPT
                      !.y = integrate(rhs_case.y, rhs_case.x, 1),
                      !.evaluated = FALSE,
                      !.steps = @ + 1]
    /\ UNCHANGED <<vars_of_run, parser, spectrum, system, sweep>>

NextRhs ==
    \/ RhsBuild
    \/ RhsEvaluate
    \/ RhsAdvance

SpecRhs == InitRhs /\ [][NextRhs]_vars

(***************************************************************************)
(* The right-hand side on paths of every length from one k-point on, for   *)
(* both meshes: 'full' with dk = 1/Nk1 (line 89) and '2line' with the dk   *)
(* that rect_mesh returns (line 99), a multiple of 1/Nk1.                  *)
(***************************************************************************)
\* longest path the gradient term is evaluated on
MaxGradNk1 == 3

GradientMeshes(Nk1) ==
    {[BZ_type |-> "full", dk |-> mesh_dk(Nk1)]}
        \cup {[BZ_type |-> "2line", dk |-> <<len, Nk1>>] : len \in {1, 2}}

GradientCases ==
    UNION {{[n |-> 2, Nk1 |-> Nk1, gauge |-> "length", do_semicl |-> FALSE,
             dipole_in_path |-> rhs_dipoles(dv, Nk1), e_in_path |-> rhs_energies(1, Nk1),
             gamma1 |-> g, gamma2 |-> g, electric_f |-> E,
             y0 |-> append_A(initial_condition(2, Nk1, 0, 2, rhs_energies(1, Nk1)),
                             Nk1 * 4),
             start |-> rhs_states(first, stride, Nk1),
             y |-> rhs_states(first, stride, Nk1),
             x |-> rhs_states(3, 0, Nk1), evaluated |-> FALSE, steps |-> 0,
             BZ_type |-> mesh.BZ_type, dk |-> mesh.dk,
             gradient |-> <<>>, gradient_reads |-> <<>>, tensors |-> <<>>, built |-> 0] :
               mesh \in GradientMeshes(Nk1), dv \in {0, 3}, g \in {0, 1},
               E \in {0, 4, 0 - 4}, first \in 0 .. 3, stride \in {0, 1}} :
           Nk1 \in 1 .. MaxGradNk1}

InitGradient ==
    /\ RunIdle
    /\ parser = parser_idle
    /\ spectrum = spectrum_idle
    /\ system = system_idle
    /\ sweep = sweep_idle
    /\ rhs_case \in GradientCases

SpecGradient == InitGradient /\ [][NextRhs]_vars

(***************************************************************************)
(* rhs_of_sbe on its own, for band structures of one band and more: the    *)
(* tensors of a path are built from energies and Hermitian dipole matrices *)
(* of n bands, next to a density matrix rho stored row-major at every      *)
(* k-point of the state.                                                   *)
(***************************************************************************)
\* largest number of bands the tensors are built for
MaxBands == 3
\* longest path the tensors are built for
MaxTensorNk1 == 2

\* band energies: distinct and k-dependent, alternating (equal for bands of
\* the same parity), all equal
tensor_energies(variant, n, Nk1) ==
    [k \in 0 .. (Nk1 - 1) |-> [b \in 0 .. (n - 1) |->
        IF variant = 0 THEN b * (k + 1) - 1
        ELSE IF variant = 1 THEN b % 2
        ELSE 0]]

\* Hermitian dipole matrices: zero, real symmetric with a diagonal, complex
\* without a diagonal, complex with a diagonal
tensor_dipoles(variant, n, Nk1) ==
    [k \in 0 .. (Nk1 - 1) |-> [i \in 0 .. (n - 1) |-> [j \in 0 .. (n - 1) |->
        LET lo == IF i < j THEN i ELSE j
            hi == IF i < j THEN j ELSE i
            off == IF variant = 1 THEN <<hi + k, 0>> ELSE <<lo + 1, hi + k>>
        IN  IF variant = 0 THEN CZero
            ELSE IF i = j THEN <<(variant % 2) * (i + 1), 0>>
            ELSE IF i < j THEN off ELSE CConj(off)]]]

\* density matrices: populations only, Hermitian with coherences, not Hermitian
tensor_density(variant, n) ==
    [m \in 0 .. (n - 1) |-> [i \in 0 .. (n - 1) |->
        IF variant = 0 THEN (IF m = i THEN <<m + 1, 0>> ELSE CZero)
        ELSE IF variant = 1
             THEN (IF m = i THEN <<2 - m, 0>> ELSE <<1, i - m>>)
        ELSE <<m, 2 * i + 1>>]]

\* the state of a path whose k-points all hold the density matrix rho
tensor_state(rho_, n, Nk1) ==
    [idx \in 0 .. (Nk1 * n * n) |->
        IF idx = Nk1 * n * n THEN CZero
        ELSE rho_[(idx % (n * n)) \div n][idx % n]]

TensorCases ==
    UNION {{[n |-> n, Nk1 |-> Nk1,
             dipole_in_path |-> tensor_dipoles(dv, n, Nk1),
             e_in_path |-> tensor_energies(ev, n, Nk1),
             gamma1 |-> g1, gamma2 |-> g2,
             density |-> tensor_density(rv, n),
             y |-> tensor_state(tensor_density(rv, n), n, Nk1),
             evaluated |-> FALSE, tensors |-> <<>>, built |-> 0] :
               dv \in 0 .. 3, ev \in 0 .. 2, g1 \in {0, 1, 2}, g2 \in {0, 1, 3},
               rv \in 0 .. 2} :
           n \in 1 .. MaxBands, Nk1 \in 1 .. MaxTensorNk1}

InitTensors ==
    /\ RunIdle
    /\ parser = parser_idle
    /\ spectrum = spectrum_idle
    /\ system = system_idle
    /\ sweep = sweep_idle
    /\ rhs_case \in TensorCases

SpecTensors == InitTensors /\ [][RhsBuild]_vars

(***************************************************************************)
(* initial_condition on its own: Fermi energies below, inside and above    *)
(* the bands, temperatures below, at and above the value of line 362.      *)
(***************************************************************************)
InitialCases ==
    UNION {{[n |-> n, Nk1 |-> Nk1, e_fermi |-> ef, temperature |-> temp,
             e_in_path |-> tensor_energies(ev, n, Nk1),
             y0 |-> <<>>, evaluated |-> FALSE, initialised |-> FALSE] :
               ef \in (0 - 2) .. 2, temp \in (0 - 1) .. 3, ev \in 0 .. 2} :
           n \in 1 .. MaxBands, Nk1 \in 1 .. MaxTensorNk1}

InitInitial ==
    /\ RunIdle
    /\ parser = parser_idle
    /\ spectrum = spectrum_idle
    /\ system = system_idle
    /\ sweep = sweep_idle
    /\ rhs_case \in InitialCases

\* lines 182-183: y0 = initial_condition(e_fermi, temperature, e_in_path)
InitialCondition ==
    /\ pc = "idle"
    /\ ~rhs_case.initialised
    /\ rhs_case' = [rhs_case EXCEPT
                      !.y0 = initial_condition(rhs_case.n, rhs_case.Nk1, rhs_case.e_fermi,
                                               rhs_case.temperature, rhs_case.e_in_path),
                      !.initialised = TRUE]
    /\ UNCHANGED <<vars_of_run, parser, spectrum, system, sweep>>

SpecInitial == InitInitial /\ [][InitialCondition]_vars

(***************************************************************************)
(* Lines 122-183 for band structures of two bands and more: the arrays     *)
(* dipole_in_path and e_in_path are allocated once with np.empty, filled   *)
(* in the head of the path loop and read by rhs_of_sbe and                 *)
(* initial_condition.  Every entry carries where its value came from:      *)
(* origin "empty" (never assigned: whatever the memory held), "callable"   *)
(* (sys.efjit, dipole.Axfjit, dipole.Ayfjit) or "numerical" (diagonalize,  *)
(* dipole_elements), and the path whose k-points it was evaluated at.      *)
(***************************************************************************)
\* what np.empty may hold: any value; three of them are tried
GarbageEntries == {<<0, 0>>, <<7, 7>>, <<0 - 3, 5>>}

\* dipole_elements(...)[:, idx, i, j] projected on E_dir: the two lowest
\* bands as the callables give them, the others Hermitian
numerical_dipole(Nk1, paths_, idx, k, i, j) ==
    IF i < 2 /\ j < 2 THEN dipole_elements_projected(Nk1, paths_, idx)[k][i][j]
    ELSE IF i = j THEN <<i, 0>>
    ELSE IF i < j THEN <<i + j, 1>> ELSE <<i + j, 0 - 1>>

\* diagonalize(...)[0][:, idx, b]: the energy of band b on path idx
numerical_energy(paths_, idx, k, b) ==
    IF b < 2 THEN sys_efjit(b, paths_[idx + 1], k) ELSE b + paths_[idx + 1]

entry(origin, path, value) == [origin |-> origin, path |-> path, value |-> value]

\* lines 133-134: np.empty([Nk1, n, n]) and np.empty([Nk1, n])
empty_arrays(n, Nk1, g) ==
    [dipole_in_path |-> [k \in 0 .. (Nk1 - 1) |-> [i \in 0 .. (n - 1) |->
                            [j \in 0 .. (n - 1) |-> entry("empty", 0 - 1, g)]]],
     e_in_path |-> [k \in 0 .. (Nk1 - 1) |-> [b \in 0 .. (n - 1) |->
                            entry("empty", 0 - 1, g[1])]]]

AssembleCases ==
    {[n |-> n, Nk1 |-> Nk1, paths |-> order,
      dipole_numerics |-> num, save_full |-> full, position |-> 0, stage |-> "allocated",
      arrays |-> empty_arrays(n, Nk1, g),
      tensors |-> <<>>, y0 |-> <<>>, evaluated |-> FALSE] :
        n \in 2 .. MaxBands, Nk1 \in 1 .. MaxTensorNk1, order \in {<<1, 2>>, <<2, 1>>},
        num \in BOOLEAN, full \in BOOLEAN, g \in GarbageEntries}

InitAssemble ==
    /\ RunIdle
    /\ parser = parser_idle
    /\ spectrum = spectrum_idle
    /\ system = system_idle
    /\ sweep = sweep_idle
    /\ rhs_case \in AssembleCases

\* lines 135-174: the head of the path loop for the path at rhs_case.position
AssemblePath ==
    /\ pc = "idle"
    /\ rhs_case.stage = "allocated"
    /\ rhs_case.position < Len(rhs_case.paths)
    /\ LET c == rhs_case
           idx == IF c.save_full THEN c.position ELSE 0
           own == c.paths[c.position + 1]
           analytic == analytic_dipole_in_path(c.Nk1, own)
           d == [k \in 0 .. (c.Nk1 - 1) |-> [i \in 0 .. (c.n - 1) |->
                   [j \in 0 .. (c.n - 1) |->
                       IF c.dipole_numerics
                       THEN entry("numerical", idx,
                                  numerical_dipole(c.Nk1, c.paths, idx, k, i, j))
                       ELSE IF i < 2 /\ j < 2
                            THEN entry("callable", c.position, analytic[k][i][j])
                            ELSE c.arrays.dipole_in_path[k][i][j]]]]
           e == [k \in 0 .. (c.Nk1 - 1) |-> [b \in 0 .. (c.n - 1) |->
                   IF b < 2
                   THEN entry("callable", c.position, sys_efjit(b, own, k))
                   ELSE IF c.dipole_numerics
                        THEN entry("numerical", idx, numerical_energy(c.paths, idx, k, b))
                        ELSE c.arrays.e_in_path[k][b]]]
       IN  rhs_case' = [rhs_case EXCEPT !.arrays = [dipole_in_path |-> d, e_in_path |-> e],
                                        !.stage = "assembled"]
    /\ UNCHANGED <<vars_of_run, parser, spectrum, system, sweep>>

\* lines 178-183: rhs_of_sbe and initial_condition read every entry
BuildFromArrays ==
    /\ pc = "idle"
    /\ rhs_case.stage = "assembled"
    /\ LET c == rhs_case
           d == [k \in 0 .. (c.Nk1 - 1) |-> [i \in 0 .. (c.n - 1) |->
                   [j \in 0 .. (c.n - 1) |-> c.arrays.dipole_in_path[k][i][j].value]]]
           e == [k \in 0 .. (c.Nk1 - 1) |-> [b \in 0 .. (c.n - 1) |->
                   c.arrays.e_in_path[k][b].value]]
       IN  rhs_case' = [rhs_case EXCEPT
                          !.tensors = rhs_of_sbe(c.n, c.Nk1, d, e, 1, 1),
                          !.y0 = append_A(initial_condition(c.n, c.Nk1, 0, 0, e),
                                          c.Nk1 * c.n * c.n),
                          !.stage = "built"]
    /\ UNCHANGED <<vars_of_run, parser, spectrum, system, sweep>>

\* line 135: the loop goes on to the next path; the arrays stay as they are
NextPathArrays ==
    /\ pc = "idle"
    /\ rhs_case.stage = "built"
    /\ rhs_case.position + 1 < Len(rhs_case.paths)
    /\ rhs_case' = [rhs_case EXCEPT !.position = @ + 1, !.stage = "allocated"]
    /\ UNCHANGED <<vars_of_run, parser, spectrum, system, sweep>>

NextAssemble ==
    \/ AssemblePath
    \/ BuildFromArrays
    \/ NextPathArrays

SpecAssemble == InitAssemble /\ [][NextAssemble]_vars

(***************************************************************************)
(* Parameter parsing: parse_params (sbe) and ParamsParser (cued) read a    *)
(* user parameter set UP.  UP is the set UP.has of the optional attribute  *)
(* names it defines, the values of those the checks look at, and pulse:    *)
(* whether the pulse parameters E0, chirp, sigma/alpha and phase are       *)
(* given.  Attributes every run needs are always given.  A parser ends by  *)
(* returning the record, by exit with a message, or with AttributeError    *)
(* when it reads an attribute UP does not have.                            *)
(***************************************************************************)
dk_order_default == 8

dk_order_available == {2, 4, 6, 8}

msg_dk_order == "dk_order needs to be either 2, 4, 6, or 8."

msg_quadruple == "Error: Quadruple precision only works with Runge-Kutta 4 ODE solver."

msg_precision == "Only default or quadruple precision available."

msg_BZ_type == "BZ_type needs to be either hexagon or rectangle."

msg_gaussian == "Gaussian needs a width (gaussian_window_width)."

msg_no_effect == "Error: The following parameters have no effect inside the current run:"

\* the user parameter sets: optional names in has, canonical values for
\* the attributes that are not given
UserParams(names, bz_types) ==
    {[has |-> h, pulse |-> pulse, BZ_type |-> bz,
      dk_order |-> IF "dk_order" \in h THEN dk ELSE 0,
      precision |-> IF "precision" \in h THEN prec ELSE "",
      solver_method |-> IF "solver_method" \in h THEN meth ELSE "",
      fourier_window_function |-> IF "fourier_window_function" \in h THEN "gaussian" ELSE ""] :
        h \in SUBSET names, pulse \in BOOLEAN, bz \in bz_types, dk \in {3, 8},
        prec \in {"quadruple", "single"}, meth \in {"rk4", "adams"}}

\* value of an optional attribute: UP's if given, the default otherwise
optional_value(UP, name, default) == IF name \in UP.has THEN UP[name] ELSE default

\* precision_check without the test of the solver method
precision_check_without_method(precision, solver_method) ==
    IF precision \in {"double", "quadruple"} THEN "" ELSE msg_precision

\* lines 52-61 of parse_params, 185-194 of ParamsParser: "" when accepted
precision_check(precision, solver_method) ==
    IF precision = "double" THEN ""
    ELSE IF precision = "quadruple"
         THEN (IF solver_method # "rk4" THEN msg_quadruple ELSE "")
         ELSE msg_precision

\* dk_order_check that refuses only orders above the largest one available
dk_order_check_upper_bound_only(UP) ==
    IF "dk_order" \in UP.has /\ UP.dk_order > 8 THEN msg_dk_order ELSE ""

\* lines 67-71 of parse_params, 129-133 of ParamsParser: "" when accepted
dk_order_check(UP) ==
    IF "dk_order" \in UP.has /\ UP.dk_order \notin dk_order_available
    THEN msg_dk_order ELSE ""

parser_start(reader, UP) ==
    [reader |-> reader, UP |-> UP, stage |-> "start", outcome |-> "parsing",
     message |-> "", reported |-> {}, attrs |-> {},
     P |-> [BZ_type |-> "", dk_order |-> 0, precision |-> "", solver_method |-> "",
            user_out |-> TRUE, user_defined_field |-> FALSE,
            gaussian_window_width |-> ""]]

parser_ends(outcome, message) ==
    parser' = [parser EXCEPT !.stage = "end", !.outcome = outcome, !.message = message]

(***************************************************************************)
(* parse_params: one call.                                                 *)
(***************************************************************************)
parse_params_names == {"dk_order", "precision", "solver_method", "align",
                       "angle_inc_E_field", "user_out"}

parse_params_call ==
    /\ pc = "idle"
    /\ parser.reader = "parse_params"
    /\ parser.stage = "start"
    /\ LET UP == parser.UP
           precision == optional_value(UP, "precision", "double")
           solver_method == optional_value(UP, "solver_method", "bdf")
           P == [parser.P EXCEPT
                   !.BZ_type = UP.BZ_type,
                   !.dk_order = optional_value(UP, "dk_order", dk_order_default),
                   !.precision = precision,
                   !.solver_method = solver_method,
                   !.user_out = "user_out" \notin UP.has]
       IN  IF precision_check(precision, solver_method) # ""
           THEN parser_ends("exit", precision_check(precision, solver_method))
           ELSE IF dk_order_check(UP) # ""
           THEN parser_ends("exit", dk_order_check(UP))
           ELSE IF ~UP.pulse
           THEN parser_ends("AttributeError", "E0")
           ELSE IF UP.BZ_type = "full" /\ "align" \notin UP.has
           THEN parser_ends("AttributeError", "align")
           ELSE IF UP.BZ_type = "2line" /\ "angle_inc_E_field" \notin UP.has
           THEN parser_ends("AttributeError", "angle_inc_E_field")
           ELSE parser' = [parser EXCEPT !.stage = "returned", !.outcome = "returned",
                                         !.P = P]
    /\ UNCHANGED <<vars_of_run, rhs_case, spectrum, system, sweep>>

(***************************************************************************)
(* sbe_solver_n_bands up to the creation of fnumba, for the Brillouin-zone *)
(* type of the record: the names Nk1, Nk2, Nk, align and E_dir, paths are  *)
(* bound only in the branches for 'full' and '2line'.                      *)
(***************************************************************************)
solver_entry ==
    /\ pc = "idle"
    /\ parser.reader = "parse_params"
    /\ parser.stage = "returned"
    /\ IF parser.P.BZ_type \in {"full", "2line"}
       THEN parser' = [parser EXCEPT !.stage = "end", !.outcome = "mesh_built"]
       ELSE IF parser.P.user_out
       THEN parser_ends("UnboundLocalError", "Nk")
       ELSE parser_ends("UnboundLocalError", "E_dir")
    /\ UNCHANGED <<vars_of_run, rhs_case, spectrum, system, sweep>>

(***************************************************************************)
(* ParamsParser.__init__: one action per method it calls.                  *)
(***************************************************************************)
ParamsParser_names == {"dk_order", "precision", "solver_method", "electric_field_function",
                       "fourier_window_function", "gaussian_window_width", "align",
                       "angle_inc_E_field", "a", "not_a_parameter"}

pulse_names == {"E0", "chirp", "sigma", "phase"}

rectangle_names == {"length_BZ_ortho", "length_BZ_E_dir"}

\* UP.__dict__.keys() without the names every class has
user_params(UP) ==
    {"e_fermi", "temperature", "T1", "T2", "t0", "dt", "f", "BZ_type", "Nk1", "Nk2"}
    \cup UP.has
    \cup (IF UP.pulse THEN pulse_names ELSE {})
    \cup (IF UP.BZ_type = "rectangle" THEN rectangle_names ELSE {})

\* __occupation, __time_scales, __field
ParamsParser_field ==
    /\ pc = "idle"
    /\ parser.reader = "ParamsParser"
    /\ parser.stage = "start"
    /\ LET UP == parser.UP
           user_defined == "electric_field_function" \in UP.has
           read == {"e_fermi", "temperature", "T1", "T2", "t0", "dt", "f",
                    "electric_field_function", "_ParamsParser__user_defined_field"}
       IN  IF ~user_defined /\ ~UP.pulse
           THEN parser_ends("AttributeError", "E0")
           ELSE parser' = [parser EXCEPT
                             !.stage = "brillouin_zone",
                             !.attrs = read \cup (IF user_defined THEN {} ELSE pulse_names),
                             !.P.user_defined_field = user_defined]
    /\ UNCHANGED <<vars_of_run, rhs_case, spectrum, system, sweep>>

ParamsParser_brillouin_zone ==
    /\ pc = "idle"
    /\ parser.reader = "ParamsParser"
    /\ parser.stage = "brillouin_zone"
    /\ LET UP == parser.UP
           common == {"BZ_type", "Nk1", "Nk2", "align", "angle_inc_E_field"}
       IN  IF UP.BZ_type = "hexagon"
           THEN IF "align" \notin UP.has THEN parser_ends("AttributeError", "align")
                ELSE IF "a" \notin UP.has THEN parser_ends("AttributeError", "a")
                ELSE parser' = [parser EXCEPT !.stage = "optional",
                                              !.attrs = @ \cup common \cup {"a"},
                                              !.P.BZ_type = UP.BZ_type]
           ELSE IF UP.BZ_type = "rectangle"
           THEN IF "angle_inc_E_field" \notin UP.has
                THEN parser_ends("AttributeError", "angle_inc_E_field")
                ELSE parser' = [parser EXCEPT !.stage = "optional",
                                              !.attrs = @ \cup common \cup rectangle_names,
                                              !.P.BZ_type = UP.BZ_type]
           ELSE parser_ends("exit", msg_BZ_type)
    /\ UNCHANGED <<vars_of_run, rhs_case, spectrum, system, sweep>>

\* optional_names when solver_method is read without being stored
optional_names_without_solver_method ==
    {"user_out", "save_full", "save_latex_pdf", "split_current", "do_semicl", "gauge",
     "hamiltonian_evaluation", "solver", "epsilon", "gidx", "save_anom", "precision",
     "symmetric_insulator", "dk_order", "factor_freq_resolution", "num_dimensions",
     "fourier_window_function"}

optional_names == {"user_out", "save_full", "save_latex_pdf", "split_current", "do_semicl",
                   "gauge", "hamiltonian_evaluation", "solver", "epsilon", "gidx",
                   "save_anom", "solver_method", "precision", "symmetric_insulator",
                   "dk_order", "factor_freq_resolution", "num_dimensions",
                   "fourier_window_function"}

ParamsParser_optional ==
    /\ pc = "idle"
    /\ parser.reader = "ParamsParser"
    /\ parser.stage = "optional"
    /\ LET UP == parser.UP
           window == optional_value(UP, "fourier_window_function", "hann")
           width_given == "gaussian_window_width" \in UP.has
           accepted == [parser EXCEPT
                        !.stage = "check",
                        !.attrs = @ \cup optional_names
                                    \cup (IF window = "gaussian"
                                          THEN {"gaussian_window_width"} ELSE {}),
                        !.P.dk_order = optional_value(UP, "dk_order", dk_order_default),
                        !.P.precision = optional_value(UP, "precision", "double"),
                        !.P.solver_method = optional_value(UP, "solver_method", "bdf"),
                        !.P.gaussian_window_width =
                            IF window = "gaussian" THEN "sigma" ELSE ""]
       IN  IF dk_order_check(UP) # ""
           THEN parser_ends("exit", dk_order_check(UP))
           ELSE IF window = "gaussian" /\ parser.P.user_defined_field /\ ~width_given
           THEN parser_ends("exit", msg_gaussian)
           ELSE IF window = "gaussian" /\ "sigma" \notin parser.attrs
           THEN parser_ends("AttributeError", "sigma")
           ELSE parser' = accepted
    /\ UNCHANGED <<vars_of_run, rhs_case, spectrum, system, sweep>>

ParamsParser_check_user_params_for_wrong_arguments ==
    /\ pc = "idle"
    /\ parser.reader = "ParamsParser"
    /\ parser.stage = "check"
    /\ LET default_params == parser.attrs
           diff_params == (default_params \cup user_params(parser.UP)) \ default_params
       IN  IF diff_params # {}
           THEN parser' = [parser EXCEPT !.stage = "end", !.outcome = "exit",
                                         !.message = msg_no_effect,
                                         !.reported = diff_params]
           ELSE parser' = [parser EXCEPT !.stage = "derived"]
    /\ UNCHANGED <<vars_of_run, rhs_case, spectrum, system, sweep>>

ParamsParser_append_derived_parameters ==
    /\ pc = "idle"
    /\ parser.reader = "ParamsParser"
    /\ parser.stage = "derived"
    /\ LET refused == precision_check(parser.P.precision, parser.P.solver_method)
       IN  IF refused # ""
           THEN parser_ends("exit", refused)
           ELSE IF parser.P.user_defined_field
           THEN parser_ends("AttributeError", "E0_MVpcm")
           ELSE parser' = [parser EXCEPT !.stage = "returned", !.outcome = "returned"]
    /\ UNCHANGED <<vars_of_run, rhs_case, spectrum, system, sweep>>

ParserCases ==
    {parser_start("parse_params", UP) :
        UP \in UserParams(parse_params_names, {"full", "2line", "hexagon"})}
    \cup {parser_start("ParamsParser", UP) :
        UP \in UserParams(ParamsParser_names, {"hexagon", "rectangle", "full"})}

InitParse ==
    /\ RunIdle
    /\ rhs_case = [evaluated |-> FALSE]
    /\ spectrum = spectrum_idle
    /\ system = system_idle
    /\ sweep = sweep_idle
    /\ parser \in ParserCases

NextParse ==
    \/ parse_params_call
    \/ solver_entry
    \/ ParamsParser_field
    \/ ParamsParser_brillouin_zone
    \/ ParamsParser_optional
    \/ ParamsParser_check_user_params_for_wrong_arguments
    \/ ParamsParser_append_derived_parameters

SpecParse == InitParse /\ [][NextParse]_vars

(***************************************************************************)
(* Spectral post-processing: fourier and the part of                       *)
(* write_current_emission that builds the frequency axis and transforms    *)
(* the exact current.  A spectral value is kept exactly, as the integer    *)
(* coefficients c[0..N-1] of c[0] + c[1]*w + ... + c[N-1]*w^(N-1) with     *)
(* w = exp(-2*pi*i/N), in units of 1/sqrt(2*pi); it is zero exactly when   *)
(* the polynomial is a multiple of the N-th cyclotomic polynomial.  The    *)
(* signal is real: the current times the window, on an integer scale.      *)
(***************************************************************************)
\* longest time grid that is transformed
MaxFourierLen == 6

\* the cyclotomic polynomials, constant coefficient first
cyclotomic(N) ==
    IF N = 1 THEN <<0 - 1, 1>>
    ELSE IF N = 2 THEN <<1, 1>>
    ELSE IF N = 3 THEN <<1, 1, 1>>
    ELSE IF N = 4 THEN <<1, 0, 1>>
    ELSE IF N = 5 THEN <<1, 1, 1, 1, 1>>
    ELSE IF N = 6 THEN <<1, 0 - 1, 1>>
    ELSE IF N = 7 THEN <<1, 1, 1, 1, 1, 1, 1>>
    ELSE <<1, 0, 0, 0, 1>>

RECURSIVE cyclotomic_remainder(_, _, _)
\* remainder of the polynomial c on division by phi, from degree d down
cyclotomic_remainder(c, phi, d) ==
    LET deg == Len(phi) - 1
    IN  IF d < deg THEN c
        ELSE cyclotomic_remainder(
                Evaluated([e \in DOMAIN c |->
                    IF e >= d - deg /\ e <= d
                    THEN c[e] - c[d] * phi[e - (d - deg) + 1]
                    ELSE c[e]]),
                phi, d - 1)

\* the spectral value c is the number zero
spectral_zero(c, N) ==
    \A r \in {cyclotomic_remainder(c, cyclotomic(N), N - 1)} : \A e \in DOMAIN r : r[e] = 0

\* fft with the last sample left out of the sums
fft_without_last_sample(x, N) ==
    Evaluated([k \in 0 .. (N - 1) |->
        Evaluated([e \in 0 .. (N - 1) |->
            ISum([j \in 0 .. (N - 2) |-> IF (j * k) % N = e THEN x[j] ELSE 0], N - 2)])])

\* numpy.fft.fft of a real signal x of length N
fft(x, N) ==
    Evaluated([k \in 0 .. (N - 1) |->
        Evaluated([e \in 0 .. (N - 1) |->
            ISum([j \in 0 .. (N - 1) |-> IF (j * k) % N = e THEN x[j] ELSE 0], N - 1)])])

\* numpy.fft.fftshift with the shift taken as in ifftshift
fftshift_by_ifftshift(x, N) == Evaluated([i \in 0 .. (N - 1) |-> x[(i + (N \div 2)) % N]])

\* numpy.fft.fftshift: roll by N//2
fftshift(x, N) == Evaluated([i \in 0 .. (N - 1) |-> x[(i + N - (N \div 2)) % N]])

\* numpy.fft.ifftshift: roll by -(N//2)
ifftshift(x, N) == Evaluated([i \in 0 .. (N - 1) |-> x[(i + (N \div 2)) % N]])

\* numpy.fft.fftfreq(N, d): the numerators of its entries, which are k/(d*N)
fftfreq(N) == [i \in 0 .. (N - 1) |-> IF i <= (N - 1) \div 2 THEN i ELSE i - N]

\* fourier(dt, data) in units of 1/sqrt(2*pi)
fourier(dt, data, N) ==
    LET shifted == fftshift(fft(ifftshift(data, N), N), N)
    IN  Evaluated([i \in 0 .. (N - 1) |->
            Evaluated([e \in 0 .. (N - 1) |-> dt * shifted[i][e]])])

\* the time grid the solver hands over: Nt entries t0, t0 + dt, ...
time_grid(t0, dt) == [i \in 0 .. (time_steps(t0, dt) - 1) |-> t0 + i * dt]

spectrum_start(t0, dt, data) ==
    [t0 |-> t0, dt |-> dt, N |-> time_steps(t0, dt), t |-> time_grid(t0, dt),
     data |-> data, fft_input |-> <<>>, front |-> 0, Iw |-> <<>>, freq |-> <<>>,
     Iw_exact |-> <<>>, stage |-> "signal", outcome |-> "running"]

\* the grids of at most MaxFourierLen entries
SpectrumGrids ==
    {h \in ((0 - MaxFourierLen) .. MaxFourierLen) \X (1 .. 3) :
        time_steps(h[1], h[2]) <= MaxFourierLen}

\* every signal on every grid
InitFourier ==
    /\ RunIdle
    /\ rhs_case = [evaluated |-> FALSE]
    /\ parser = parser_idle
    /\ system = system_idle
    /\ sweep = sweep_idle
    /\ \E g \in SpectrumGrids :
       \E data \in [0 .. (time_steps(g[1], g[2]) - 1) -> {0 - 1, 0, 2}] :
           spectrum = spectrum_start(g[1], g[2], data)

\* fourier(dt, data) called on the signal; front is the grid index of the
\* sample that ifftshift puts at position 0 of the input of fft
fourier_call ==
    /\ pc = "idle"
    /\ spectrum.stage = "signal"
    /\ spectrum' = [spectrum EXCEPT
                      !.stage = "transformed",
                      !.fft_input = ifftshift(spectrum.data, spectrum.N),
                      !.front = ifftshift([i \in 0 .. (spectrum.N - 1) |-> i], spectrum.N)[0],
                      !.Iw = fourier(spectrum.dt, spectrum.data, spectrum.N)]
    /\ UNCHANGED <<vars_of_run, rhs_case, parser, system, sweep>>

\* write_current_emission: dt_out, freq and the transform of the exact current
write_exact_emission ==
    /\ pc = "idle"
    /\ spectrum.stage = "transformed"
    /\ IF spectrum.N < 2
       THEN spectrum' = [spectrum EXCEPT !.stage = "end", !.outcome = "IndexError"]
       ELSE LET dt_out == spectrum.t[1] - spectrum.t[0]
            IN  spectrum' = [spectrum EXCEPT
                               !.stage = "end",
                               !.outcome = "written",
                               !.freq = fftshift(fftfreq(spectrum.N), spectrum.N),
                               !.Iw_exact = fourier(dt_out, spectrum.data, spectrum.N)]
    /\ UNCHANGED <<vars_of_run, rhs_case, parser, system, sweep>>

NextFourier ==
    \/ fourier_call
    \/ write_exact_emission

SpecFourier == InitFourier /\ [][NextFourier]_vars

(***************************************************************************)
(* What a path contributes when it is propagated on its own, with the      *)
(* band structure of its own k-points and every step succeeding: the       *)
(* reference the accumulated series are compared with.                     *)
(***************************************************************************)
RECURSIVE own_snapshots(_, _, _, _, _, _)
own_snapshots(P, rhs, y0, y, time, left) ==
    IF left = 0 THEN <<>>
    ELSE <<Evaluated(density_part(y, StateLen(P)))>> \o
         CHOOSE rest \in
             {own_snapshots(P, rhs, y0, next, time + P.dt, left - 1) :
                 next \in {integrate(y, fnumba(P.n, electric_field(P.E0, P.alpha, time),
                                              y, rhs, y0, P.Nk1, mesh_dk(P.Nk1)),
                                     P.dt)}} : TRUE

own_solution(P, p, N) ==
    CHOOSE sol \in
        {Evaluated([i \in 0 .. (N - 1) |-> snaps[i + 1]]) :
            snaps \in
                {own_snapshots(P, rhs, y0, y0, P.t0, N) :
                    rhs \in {rhs_of_sbe(P.n, P.Nk1, analytic_dipole_in_path(P.Nk1, p),
                                        analytic_e_in_path(P.Nk1, p),
                                        P.gamma1, P.gamma2)},
                    y0 \in {Evaluated(append_A(
                                initial_condition(P.n, P.Nk1, P.e_fermi, P.temperature,
                                                  analytic_e_in_path(P.Nk1, p)),
                                StateLen(P)))}}} : TRUE

own_current(P, p, N) ==
    CHOOSE c \in
        {current_in_path_dipole(P.n, P.Nk1, N, sol, p,
                                analytic_dipole_in_path(P.Nk1, p),
                                analytic_e_in_path(P.Nk1, p)) :
            sol \in {own_solution(P, p, N)}} : TRUE

own_polarization(P, p, N) ==
    CHOOSE c \in
        {polarization_in_path(P.n, P.Nk1, N, sol, p,
                              analytic_dipole_in_path(P.Nk1, p)) :
            sol \in {own_solution(P, p, N)}} : TRUE

RECURSIVE sum_over_paths(_, _, _)
\* sum of the series f[1] .. f[hi], each of length N
sum_over_paths(f, hi, N) ==
    IF hi = 0 THEN ZeroSeries(N)
    ELSE Evaluated(add_series(sum_over_paths(f, hi - 1, N), f[hi], N))

all_succeeded == history.failed = {}

(***************************************************************************)
(* C1: if the integrator reports failure at a step of a path, the run is   *)
(* aborted: nothing of that path is accumulated, no later path is          *)
(* propagated and no output is written.                                    *)
(***************************************************************************)
C1_AbortOnSolverFailure ==
    \A f \in history.failed :
        /\ f \notin history.accumulated
        /\ position = f
        /\ ~written.called

(***************************************************************************)
(* C2: the exact-current series handed to write_current_emission are, at   *)
(* every time index, the sums over the paths of the paths' exact currents: *)
(* the field-direction series and the orthogonal series.                   *)
(***************************************************************************)
C2_ExactCurrentHandedOver ==
    (written.called /\ all_succeeded) =>
        \A i \in 0 .. (Nt - 1) :
            /\ written.args.I_exact_E_dir[i] = emission_exact_path_full[i][1]
            /\ written.args.I_exact_ortho[i] = emission_exact_path_full[i][2]

(***************************************************************************)
(* C3: when every path integrates successfully, the accumulated exact and  *)
(* intraband currents are the sums of the paths' own contributions, which  *)
(* do not depend on the order of the paths.                                *)
(***************************************************************************)
C3_SumOfOwnContributions ==
    (pc = "done" /\ all_succeeded) =>
        \A own \in {Evaluated([p \in 1 .. params.Nk2 |-> own_current(params, p, Nt)])} :
            /\ emission_exact_path_full =
                   sum_over_paths([p \in 1 .. params.Nk2 |-> own[p].current_path],
                                  params.Nk2, Nt)
            /\ emission_path_intraband =
                   sum_over_paths([p \in 1 .. params.Nk2 |-> own[p].current_path_intraband],
                                  params.Nk2, Nt)

C5_StepsStayInWindow ==
    /\ history.integrate_calls > 0 => history.integrate_target <= 0 - params.t0
    /\ (pc = "loop" /\ solver.ok /\ ti = Nt) =>
          /\ history.integrate_calls = Nt - 1
          /\ <<Nk2_idx, Nt - 1>> \in stored

(***************************************************************************)
(* C6: the time-window warning is printed exactly when 2|t0| is not an     *)
(* integer multiple of dt, for either sign of t0, and the run goes on with *)
(* Nt = floor(2|t0|/dt) + 1.                                               *)
(***************************************************************************)
C6_WarningIffWindowNotInteger ==
    pc # "start" =>
        /\ warned <=> (Abs(2 * params.t0) % params.dt # 0)
        /\ Nt = (Abs(2 * params.t0) \div params.dt) + 1

(***************************************************************************)
(* C7: with zero field amplitude the right-hand side vanishes at the       *)
(* initial state of the path, the integrator's state stays the initial     *)
(* state, every density matrix stored for the path is the equilibrium one  *)
(* and the recorded vector potential is 0.                                 *)
(***************************************************************************)
C7_NoEvolutionWithoutField ==
    (params.E0 = 0 /\ pc = "loop") =>
        /\ \A idx \in 0 .. StateLen(params) :
              fnumba(params.n, electric_field(params.E0, params.alpha, solver.t),
                     path_data.y0, path_data.rhs, path_data.y0, params.Nk1,
                     mesh_dk(params.Nk1))[idx] = CZero
        /\ solver.y = path_data.y0
        /\ \A i \in 0 .. (ti - 1) :
              solution[Nk2_idx][i] = density_part(path_data.y0, StateLen(params))
        /\ \A i \in 1 .. Len(A_field) : A_field[i] = 0

\* a field-free path fully propagated with damping on and an occupied band
C7_Witness ==
    /\ params.E0 = 0
    /\ pc = "loop"
    /\ ti = Nt
    /\ solver.ok
    /\ params.gamma1 = 1
    /\ params.gamma2 = 1
    /\ \E idx \in 0 .. (StateLen(params) - 1) : path_data.y0[idx] # CZero

(***************************************************************************)
(* C9: with save_approx the polarization series handed to                  *)
(* write_current_emission are the sums over the paths of the paths'        *)
(* interband polarization.                                                 *)
(***************************************************************************)
C9_PolarizationHandedOver ==
    (written.called /\ params.save_approx /\ all_succeeded) =>
        \A own \in {Evaluated([p \in 1 .. params.Nk2 |->
                                  own_polarization(params, p, Nt)])} :
            \A total \in {sum_over_paths(own, params.Nk2, Nt)} :
                \A i \in 0 .. (Nt - 1) :
                    /\ written.args.P_E_dir[i] = total[i][1]
                    /\ written.args.P_ortho[i] = total[i][2]

(***************************************************************************)
(* C8: with the field off and population damping disabled (gamma1 = 0),    *)
(* the right-hand side gives zero time derivative for every diagonal       *)
(* (population) entry of the density matrix at every k-point, for every    *)
(* state, and so the sum of the band populations at each k-point keeps the *)
(* value it started with at every step.                                    *)
(***************************************************************************)
band_population(n, y, k) == CSum([m \in 0 .. (n - 1) |-> rho(n, y, k, m, m)], n - 1)

C8_PopulationsConserved ==
    (pc = "idle" /\ rhs_case.electric_f = 0 /\ rhs_case.gamma1 = 0)
    => /\ rhs_case.evaluated
          => \A k \in 0 .. (rhs_case.Nk1 - 1) : \A m \in 0 .. (rhs_case.n - 1) :
                rho(rhs_case.n, rhs_case.x, k, m, m) = CZero
       /\ \A k \in 0 .. (rhs_case.Nk1 - 1) : \A m \in 0 .. (rhs_case.n - 1) :
             rho(rhs_case.n, rhs_case.y, k, m, m) = rho(rhs_case.n, rhs_case.start, k, m, m)
       /\ \A k \in 0 .. (rhs_case.Nk1 - 1) :
             band_population(rhs_case.n, rhs_case.y, k)
                 = band_population(rhs_case.n, rhs_case.start, k)

\* the state has been advanced by a derivative that moved its coherences
\* while the field was off and gamma1 = 0
C8_Witness ==
    /\ pc = "idle"
    /\ rhs_case.electric_f = 0
    /\ rhs_case.gamma1 = 0
    /\ rhs_case.evaluated
    /\ rhs_case.steps = MaxRhsSteps
    /\ rhs_case.y # rhs_case.start
    /\ \E idx \in DOMAIN rhs_case.x : rhs_case.x[idx] # CZero
    /\ \E k \in 0 .. (rhs_case.Nk1 - 1) :
          band_population(rhs_case.n, rhs_case.y, k) # CZero

(***************************************************************************)
(* C10: when do_semicl is true the right-hand side has no contribution     *)
(* from the dipole-coupling tensor: the derivative is the one obtained     *)
(* with all dipole matrix elements zero.                                   *)
(***************************************************************************)
C10_SemiclassicalWithoutDipole ==
    (pc = "idle" /\ rhs_case.do_semicl /\ rhs_case.evaluated)
    => rhs_case.x
         = fnumba(rhs_case.n, rhs_case.electric_f, rhs_case.y,
                  rhs_of_sbe(rhs_case.n, rhs_case.Nk1,
                             [k \in 0 .. (rhs_case.Nk1 - 1) |->
                                 [i \in 0 .. (rhs_case.n - 1) |->
                                     [j \in 0 .. (rhs_case.n - 1) |-> CZero]]],
                             rhs_case.e_in_path, rhs_case.gamma1, rhs_case.gamma2),
                  rhs_case.y0, rhs_case.Nk1, mesh_dk(rhs_case.Nk1))

(***************************************************************************)
(* C11: a Brillouin-zone type other than 'full' or '2line' given to        *)
(* parse_params and sbe_solver_n_bands is detected before any mesh is      *)
(* built, and ends the run with a diagnosis that names the Brillouin-zone  *)
(* type as the problem: when nothing else is wrong with the parameters,    *)
(* the run ends by exit with a message about BZ_type.                      *)
(***************************************************************************)
parse_params_precision_accepted(UP) ==
    precision_check(optional_value(UP, "precision", "double"),
                    optional_value(UP, "solver_method", "bdf")) = ""

C11_InvalidBZTypeDiagnosed ==
    (parser.outcome # "idle" /\ parser.reader = "parse_params"
        /\ parser.UP.BZ_type \notin {"full", "2line"})
    => /\ parser.outcome # "mesh_built"
       /\ (parser.stage = "end" /\ parse_params_precision_accepted(parser.UP)
              /\ dk_order_check(parser.UP) = "" /\ parser.UP.pulse)
          => (parser.outcome = "exit" /\ parser.message = msg_BZ_type)

(***************************************************************************)
(* C12: in both parsers a user-supplied dk_order outside {2, 4, 6, 8}      *)
(* terminates parsing with the message 'dk_order needs to be either 2, 4,  *)
(* 6, or 8.' and no record is returned; when dk_order is omitted the       *)
(* returned record has dk_order = 8.                                       *)
(***************************************************************************)
dk_order_refused(UP) == "dk_order" \in UP.has /\ UP.dk_order \notin {2, 4, 6, 8}

record_returned == parser.outcome \in {"returned", "mesh_built"}

C12_DkOrderMessageAlways ==
    parser.outcome # "idle"
    => /\ dk_order_refused(parser.UP) => ~record_returned
       /\ (dk_order_refused(parser.UP) /\ parser.stage = "end")
          => (parser.outcome = "exit" /\ parser.message = msg_dk_order)
       /\ ("dk_order" \notin parser.UP.has /\ parser.outcome = "returned")
          => parser.P.dk_order = 8

(***************************************************************************)
(* C12 as it holds: a dk_order outside {2, 4, 6, 8} always ends parsing    *)
(* without a record; the message is the dk_order message exactly when no   *)
(* earlier step has ended parsing: the precision check in parse_params,    *)
(* a missing attribute or the BZ_type check in ParamsParser.  An omitted   *)
(* dk_order gives dk_order = 8 in the returned record.                     *)
(***************************************************************************)
dk_order_check_reached(p) ==
    IF p.reader = "parse_params"
    THEN parse_params_precision_accepted(p.UP)
    ELSE /\ "electric_field_function" \in p.UP.has \/ p.UP.pulse
         /\ \/ p.UP.BZ_type = "hexagon" /\ {"align", "a"} \subseteq p.UP.has
            \/ p.UP.BZ_type = "rectangle" /\ "angle_inc_E_field" \in p.UP.has

C12_DkOrder ==
    parser.outcome # "idle"
    => /\ dk_order_refused(parser.UP) => ~record_returned
       /\ (dk_order_refused(parser.UP) /\ parser.stage = "end")
          => (dk_order_check_reached(parser)
                <=> (parser.outcome = "exit" /\ parser.message = msg_dk_order))
       /\ ("dk_order" \notin parser.UP.has /\ parser.outcome = "returned")
          => parser.P.dk_order = 8

\* ParamsParser has ended at the dk_order check after two successful steps
C12_Witness ==
    /\ parser.outcome = "exit"
    /\ parser.reader = "ParamsParser"
    /\ parser.message = msg_dk_order
    /\ parser.UP.dk_order = 3
    /\ parser.attrs # {}

(***************************************************************************)
(* C13: in both parsers precision 'quadruple' is accepted only together    *)
(* with solver_method 'rk4': quadruple with any other method, the default  *)
(* 'bdf' included, and any precision other than 'double' or 'quadruple',   *)
(* ends parsing and no record is returned.  In parse_params it is the      *)
(* precision check itself that ends the run.                               *)
(***************************************************************************)
precision_of(UP) == optional_value(UP, "precision", "double")

solver_method_of(UP) == optional_value(UP, "solver_method", "bdf")

precision_refused(UP) ==
    \/ precision_of(UP) = "quadruple" /\ solver_method_of(UP) # "rk4"
    \/ precision_of(UP) \notin {"double", "quadruple"}

C13_QuadrupleOnlyWithRk4 ==
    parser.outcome # "idle"
    => /\ precision_refused(parser.UP) => ~record_returned
       /\ (precision_refused(parser.UP) /\ parser.stage = "end"
              /\ parser.reader = "parse_params")
          => /\ parser.outcome = "exit"
             /\ parser.message = (IF precision_of(parser.UP) = "quadruple"
                                  THEN msg_quadruple ELSE msg_precision)
       /\ (parser.stage = "end" /\ parser.message \in {msg_quadruple, msg_precision})
          => precision_refused(parser.UP)

\* ParamsParser has passed every other step and refuses quadruple
\* precision with the default method
C13_Witness ==
    /\ parser.outcome = "exit"
    /\ parser.reader = "ParamsParser"
    /\ parser.message = msg_quadruple
    /\ "solver_method" \notin parser.UP.has

(***************************************************************************)
(* C14: ParamsParser halts, printing the offending names, whenever the     *)
(* user parameter set contains a parameter the parser does not read for    *)
(* the chosen configuration, and does not halt when every user parameter   *)
(* is one it reads.                                                        *)
(***************************************************************************)
\* the attributes of UP that ParamsParser reads or probes for this UP
ParamsParser_reads(UP) ==
    {"e_fermi", "temperature", "T1", "T2", "t0", "dt", "f", "electric_field_function",
     "BZ_type", "Nk1", "Nk2"}
    \cup {"user_out", "save_full", "save_latex_pdf", "split_current", "do_semicl", "gauge",
          "hamiltonian_evaluation", "solver", "epsilon", "gidx", "save_anom",
          "solver_method", "precision", "symmetric_insulator", "dk_order",
          "factor_freq_resolution", "num_dimensions", "fourier_window_function"}
    \cup (IF "electric_field_function" \in UP.has
          THEN {} ELSE {"E0", "chirp", "sigma", "phase"})
    \cup (IF UP.BZ_type = "hexagon" THEN {"align", "a"} ELSE {})
    \cup (IF UP.BZ_type = "rectangle"
          THEN {"angle_inc_E_field"} \cup rectangle_names ELSE {})
    \cup (IF optional_value(UP, "fourier_window_function", "hann") = "gaussian"
          THEN {"gaussian_window_width"} ELSE {})

check_has_halted == parser.stage = "end" /\ parser.message = msg_no_effect

check_has_passed == parser.stage \in {"derived", "returned"}
                    \/ (parser.stage = "end" /\ parser.message \in {msg_quadruple, msg_precision})
                    \/ (parser.stage = "end" /\ parser.message = "E0_MVpcm")

C14_HaltsIffUnreadParameter ==
    (parser.outcome # "idle" /\ parser.reader = "ParamsParser")
    => /\ check_has_passed => user_params(parser.UP) \subseteq ParamsParser_reads(parser.UP)
       /\ check_has_halted
          => /\ ~(user_params(parser.UP) \subseteq ParamsParser_reads(parser.UP))
             /\ parser.reported = user_params(parser.UP) \ ParamsParser_reads(parser.UP)

(***************************************************************************)
(* C14 as it holds: the check halts exactly when the user parameter set    *)
(* has a name that is neither read for the chosen configuration nor one    *)
(* of align and angle_inc_E_field, which the parser stores for every       *)
(* Brillouin zone, or the parser's own private flag.  It reports exactly   *)
(* those names, all of them unread, and does not halt when every user      *)
(* parameter is one the parser reads.                                      *)
(***************************************************************************)
ParamsParser_stores_unread == {"align", "angle_inc_E_field",
                               "_ParamsParser__user_defined_field"}

C14_HaltsIffUnknownName ==
    (parser.outcome # "idle" /\ parser.reader = "ParamsParser")
    => LET known == ParamsParser_reads(parser.UP) \cup ParamsParser_stores_unread
       IN  /\ check_has_passed => user_params(parser.UP) \subseteq known
           /\ check_has_halted
              => /\ parser.reported = user_params(parser.UP) \ known
                 /\ parser.reported # {}
                 /\ parser.reported \cap ParamsParser_reads(parser.UP) = {}

\* the check has let through a parameter that the parser does not read
C14_Witness ==
    /\ parser.outcome # "idle"
    /\ parser.reader = "ParamsParser"
    /\ parser.stage = "derived"
    /\ parser.UP.BZ_type = "rectangle"
    /\ "align" \in parser.UP.has

(***************************************************************************)
(* C15: for every grid length Nt, fourier() moves the sample taken at the  *)
(* pulse centre t = 0 of the time grid to position 0 of the FFT input,     *)
(* and returns the spectrum with its zero-frequency component at the       *)
(* index floor(Nt/2), where the frequency array fftshift(fftfreq(Nt)) is   *)
(* zero.                                                                   *)
(***************************************************************************)
\* the zero-frequency component of the transform of data: dt * sum(data)
zero_frequency_component(dt, data, N) ==
    [e \in 0 .. (N - 1) |-> IF e = 0 THEN dt * ISum(data, N - 1) ELSE 0]

zero_frequency_at_centre ==
    /\ spectrum.Iw[spectrum.N \div 2]
         = zero_frequency_component(spectrum.dt, spectrum.data, spectrum.N)
    /\ spectrum.outcome = "written"
       => /\ spectrum.Iw_exact[spectrum.N \div 2]
               = zero_frequency_component(spectrum.dt, spectrum.data, spectrum.N)
          /\ \A i \in 0 .. (spectrum.N - 1) :
                spectrum.freq[i] = 0 <=> i = spectrum.N \div 2

constant_signal(data, N) == \A i \in 0 .. (N - 1) : data[i] = data[0]

C16_ConstantSignalAtZeroFrequency ==
    (spectrum.outcome # "idle" /\ spectrum.stage # "signal"
        /\ constant_signal(spectrum.data, spectrum.N))
    => /\ \A i \in 0 .. (spectrum.N - 1) :
             i # spectrum.N \div 2 => spectral_zero(spectrum.Iw[i], spectrum.N)
       /\ spectrum.Iw[spectrum.N \div 2]
            = [e \in 0 .. (spectrum.N - 1) |->
                 IF e = 0 THEN spectrum.dt * spectrum.N * spectrum.data[0] ELSE 0]
       /\ spectral_zero(spectrum.Iw[spectrum.N \div 2], spectrum.N)
            <=> spectrum.data[0] = 0

\* a nonzero constant signal of the longest length has been transformed
C16_Witness ==
    /\ spectrum.outcome # "idle"
    /\ spectrum.stage = "transformed"
    /\ spectrum.N = MaxFourierLen
    /\ constant_signal(spectrum.data, spectrum.N)
    /\ spectrum.data[0] = 2

(***************************************************************************)
(* C17: for every path length Nk1 >= 1, every k-point k of the path and    *)
(* both meshes, the finite-difference term of the right-hand side is       *)
(* D*(y at k-point (k+1) mod Nk1 - y at k-point (k-1) mod Nk1) with        *)
(* D = E(t)/(2*dk), and the components it reads all lie in the             *)
(* density-matrix block of the path, never in the vector-potential         *)
(* component that follows it.                                              *)
(***************************************************************************)
\* the state components of k-point k of a path
density_block(n, k) == (k * n * n) .. ((k + 1) * n * n - 1)

C17_PeriodicNeighboursInsideBlock ==
    (pc = "idle" /\ rhs_case.evaluated)
    => \A k \in 0 .. (rhs_case.Nk1 - 1) :
          LET nn == rhs_case.n * rhs_case.n
              up == (k + 1) % rhs_case.Nk1
              down == (k + rhs_case.Nk1 - 1) % rhs_case.Nk1
              D == (rhs_case.electric_f * rhs_case.dk[2]) \div (2 * rhs_case.dk[1])
          IN  /\ rhs_case.gradient_reads[k].forward = density_block(rhs_case.n, up)
              /\ rhs_case.gradient_reads[k].backward = density_block(rhs_case.n, down)
              /\ \A idx \in rhs_case.gradient_reads[k].forward
                              \cup rhs_case.gradient_reads[k].backward :
                     idx < rhs_case.Nk1 * nn
              /\ \A r \in 0 .. (nn - 1) :
                     rhs_case.gradient[k * nn + r]
                         = CScale(D, CSub(rhs_case.y[up * nn + r],
                                          rhs_case.y[down * nn + r]))

(***************************************************************************)
(* C18: for every k-point, every Hermitian dipole matrix d and every       *)
(* density matrix rho, the dipole-coupling tensor built by rhs_of_sbe      *)
(* applied to the row-major vectorization of rho is the row-major          *)
(* vectorization of a unit-modulus scalar times the commutator             *)
(* d*rho - rho*d, and the tensor entry between the vectorized indices      *)
(* (m,i) and (l,j) is zero unless m = l or i = j.  (The scalar is looked   *)
(* for among 1, -1, i and -i, the unit-modulus scalars that keep integer   *)
(* entries integer.)                                                       *)
(***************************************************************************)
commutator(d, rho_, n) ==
    [m \in 0 .. (n - 1) |-> [i \in 0 .. (n - 1) |->
        CSum([l \in 0 .. (n - 1) |->
                CSub(CMul(d[m][l], rho_[l][i]), CMul(rho_[m][l], d[l][i]))], n - 1)]]

\* np.dot(tensor[k, :, :], y[k*(n**2):(k+1)*(n**2)]), entry row
tensor_applied(tensor, y, n, k, row) ==
    CSum([col \in 0 .. (n * n - 1) |-> CMul(tensor[k][row][col], y[k * n * n + col])],
         n * n - 1)

unit_scalars == {<<1, 0>>, <<0 - 1, 0>>, <<0, 1>>, <<0, 0 - 1>>}

dipole_tensor_sparse ==
    \A k \in 0 .. (rhs_case.Nk1 - 1) :
        \A row, col \in 0 .. (rhs_case.n * rhs_case.n - 1) :
            (row \div rhs_case.n # col \div rhs_case.n /\ row % rhs_case.n # col % rhs_case.n)
            => rhs_case.tensors.rhs_dipole[k][row][col] = CZero

C18_DipoleTensorIsCommutator ==
    (pc = "idle" /\ rhs_case.built = 1)
    => /\ dipole_tensor_sparse
       /\ \E c \in unit_scalars :
             \A k \in 0 .. (rhs_case.Nk1 - 1) :
                 \A row \in 0 .. (rhs_case.n * rhs_case.n - 1) :
                     tensor_applied(rhs_case.tensors.rhs_dipole, rhs_case.y,
                                    rhs_case.n, k, row)
                         = CMul(c, commutator(rhs_case.dipole_in_path[k], rhs_case.density,
                                              rhs_case.n)[row \div rhs_case.n][row % rhs_case.n])

(***************************************************************************)
(* C19: the energy, population-decay and coherence-decay tensors built by  *)
(* rhs_of_sbe are diagonal in the vectorized basis, for every k-point and  *)
(* every number of bands n: between the vectorized indices (m,i) and (l,j) *)
(* all three are zero unless (m,i) = (l,j); at (m,i) the energy tensor is  *)
(* -i*(E_m(k) - E_i(k)), the population-decay tensor is -gamma1 = -1/T1    *)
(* when m = i and 0 otherwise, and the coherence-decay tensor is           *)
(* -gamma2 = -1/T2 when m # i and 0 otherwise.                             *)
(***************************************************************************)
C19_DiagonalTensors ==
    (pc = "idle" /\ rhs_case.built = 1)
    => \A k \in 0 .. (rhs_case.Nk1 - 1) :
          \A m, i, l, j \in 0 .. (rhs_case.n - 1) :
             LET row == m * rhs_case.n + i
                 col == l * rhs_case.n + j
                 same == m = l /\ i = j
             IN  /\ rhs_case.tensors.rhs_e[k][row][col]
                      = IF same
                        THEN <<0, rhs_case.e_in_path[k][i] - rhs_case.e_in_path[k][m]>>
                        ELSE <<0, 0>>
                 /\ rhs_case.tensors.rhs_gamma1[k][row][col]
                      = IF same /\ m = i THEN <<0 - rhs_case.gamma1, 0>> ELSE <<0, 0>>
                 /\ rhs_case.tensors.rhs_gamma2[k][row][col]
                      = IF same /\ m # i THEN <<0 - rhs_case.gamma2, 0>> ELSE <<0, 0>>

\* tensors built for the largest number of bands, with distinct k-dependent
\* energies and both damping rates nonzero and different
C19_Witness ==
    /\ pc = "idle"
    /\ rhs_case.built = 1
    /\ rhs_case.n = MaxBands
    /\ rhs_case.Nk1 = MaxTensorNk1
    /\ rhs_case.gamma1 = 2
    /\ rhs_case.gamma2 = 3
    /\ rhs_case.e_in_path[1][MaxBands - 1] # rhs_case.e_in_path[0][MaxBands - 1]
    /\ rhs_case.tensors.rhs_e[1][1][1] # <<0, 0>>

(***************************************************************************)
(* C20: the four tensors of a path are built exactly once, before the      *)
(* first evaluation of the right-hand side and the first integration step  *)
(* of the path, and no evaluation of fnumba changes them, the reference    *)
(* state y0 or its input state y; an integration step changes neither the  *)
(* tensors nor y0.                                                         *)
(***************************************************************************)
C20_TensorsBuiltOnceAndKept ==
    [][/\ rhs_case'.built <= 1
       /\ rhs_case'.built # rhs_case.built
            => (rhs_case.built = 0 /\ rhs_case.steps = 0 /\ ~rhs_case.evaluated
                  /\ rhs_case'.tensors = rhs_case_tensors(rhs_case))
       /\ rhs_case'.tensors # rhs_case.tensors => rhs_case'.built = rhs_case.built + 1
       /\ (rhs_case'.evaluated /\ ~rhs_case.evaluated)
            => /\ rhs_case.built = 1
               /\ rhs_case'.tensors = rhs_case.tensors
               /\ rhs_case'.y0 = rhs_case.y0
               /\ rhs_case'.y = rhs_case.y
       /\ rhs_case'.steps # rhs_case.steps
            => /\ rhs_case.built = 1
               /\ rhs_case'.tensors = rhs_case.tensors
               /\ rhs_case'.y0 = rhs_case.y0]_vars

\* the right-hand side has been evaluated again after the last integration
\* step, with the tensors built at the start
C20_Witness ==
    /\ pc = "idle"
    /\ rhs_case.built = 1
    /\ rhs_case.evaluated
    /\ rhs_case.steps = MaxRhsSteps
    /\ rhs_case.electric_f # 0
    /\ rhs_case.tensors = rhs_case_tensors(rhs_case)
    /\ rhs_case.y # rhs_case.start
    /\ rhs_case.y # rhs_case.y0

(***************************************************************************)
(* C21: the state vector of every path has one extra last component, the   *)
(* vector potential: it is 0 at t0, the derivative fnumba returns for it   *)
(* is -E(t) whatever the density-matrix components are, so that it is      *)
(* minus the integral of E over the steps taken; the recorded A_field[ti]  *)
(* is the real part of that component at snapshot ti, and the stored       *)
(* density matrix leaves the component out.  (Sequences count from 1.)     *)
(***************************************************************************)
\* the steps of length dt taken from t0 on, summed: dt * sum of E(t0 + j*dt), j < steps
field_integral(P, steps) ==
    P.dt * ISum([j \in 0 .. (steps - 1) |-> electric_field(P.E0, P.alpha, P.t0 + j * P.dt)],
                steps - 1)

C21_VectorPotentialComponent ==
    /\ pc = "loop"
       => /\ DOMAIN solver.y = 0 .. StateLen(params)
          /\ path_data.y0[StateLen(params)] = <<0, 0>>
          /\ solver.t = params.t0 => solver.y[StateLen(params)] = <<0, 0>>
          /\ fnumba(params.n, electric_field(params.E0, params.alpha, solver.t),
                    solver.y, path_data.rhs, path_data.y0, params.Nk1,
                    mesh_dk(params.Nk1))[StateLen(params)]
               = <<0 - electric_field(params.E0, params.alpha, solver.t), 0>>
          /\ solver.ok
             => solver.y[StateLen(params)] = <<0 - field_integral(params, ti), 0>>
    /\ pc \notin {"start", "idle"}
       => /\ \A i \in 1 .. Len(A_field) : A_field[i] = 0 - field_integral(params, i - 1)
          /\ \A s \in stored :
                DOMAIN solution[s[1]][s[2]] = 0 .. (StateLen(params) - 1)
    /\ (pc = "loop" /\ ti > 0 /\ solver.ok)
       => /\ <<Nk2_idx, ti - 1>> \in stored
          /\ ~t_constructed => Len(A_field) = ti

\* a second path is being propagated after the pulse has passed: the
\* vector potential is nonzero and the first path has recorded it
C21_Witness ==
    /\ pc = "loop"
    /\ solver.ok
    /\ position >= 1
    /\ solver.y[StateLen(params)] # <<0, 0>>
    /\ Len(A_field) = Nt
    /\ A_field[Nt] # 0
    /\ A_field[1] = 0

(***************************************************************************)
(* C22: initial_condition returns at every k-point a diagonal density      *)
(* matrix, all coherences zero.  At a temperature of at most 1e-5 a band   *)
(* is filled exactly when its energy is strictly below the Fermi energy    *)
(* and empty otherwise, so a band at the Fermi energy is empty; above that *)
(* temperature the occupation is the Fermi-Dirac value: strictly between   *)
(* empty and filled, one half at the Fermi energy, more below it and less  *)
(* above.  (A filled band is 4.)                                           *)
(***************************************************************************)
C22_EquilibriumOccupation ==
    (pc = "idle" /\ rhs_case.initialised)
    => /\ DOMAIN rhs_case.y0 = 0 .. (rhs_case.Nk1 * rhs_case.n * rhs_case.n - 1)
       /\ \A k \in 0 .. (rhs_case.Nk1 - 1) : \A m, i \in 0 .. (rhs_case.n - 1) :
             LET occupation == rho(rhs_case.n, rhs_case.y0, k, m, i)
                 e == rhs_case.e_in_path[k][m]
             IN  /\ m # i => occupation = <<0, 0>>
                 /\ (m = i /\ rhs_case.temperature <= 1)
                    => occupation = IF e < rhs_case.e_fermi THEN <<4, 0>> ELSE <<0, 0>>
                 /\ (m = i /\ rhs_case.temperature > 1)
                    => /\ occupation[2] = 0
                       /\ occupation[1] \in 1 .. 3
                       /\ occupation[1] = 2 <=> e = rhs_case.e_fermi
                       /\ occupation[1] > 2 <=> e < rhs_case.e_fermi

\* at the temperature of line 362 itself, a path with a band below, a band
\* at and a band above the Fermi energy
C22_Witness ==
    /\ pc = "idle"
    /\ rhs_case.initialised
    /\ rhs_case.temperature = 1
    /\ rhs_case.n = MaxBands
    /\ \E a, b, c \in 0 .. (rhs_case.n - 1) :
          /\ rhs_case.e_in_path[0][a] < rhs_case.e_fermi
          /\ rhs_case.e_in_path[0][b] = rhs_case.e_fermi
          /\ rhs_case.e_in_path[0][c] > rhs_case.e_fermi
          /\ rho(rhs_case.n, rhs_case.y0, 0, a, a) = <<4, 0>>
          /\ rho(rhs_case.n, rhs_case.y0, 0, b, b) = <<0, 0>>

(***************************************************************************)
(* C23: for every path, both values of save_full and both dipole code      *)
(* paths, the band energies and projected dipole matrices the path's       *)
(* tensors and initial condition are built from are those of the path's    *)
(* own k-points, and they stay as they are while the path is propagated.   *)
(***************************************************************************)
C23_OwnBandStructure ==
    pc = "loop"
    => \A own_d \in {analytic_dipole_in_path(params.Nk1, paths[position + 1])} :
       \A own_e \in {analytic_e_in_path(params.Nk1, paths[position + 1])} :
          /\ path_data.dipole_in_path = own_d
          /\ path_data.e_in_path = own_e
          /\ path_data.rhs = rhs_of_sbe(params.n, params.Nk1, own_d, own_e,
                                        params.gamma1, params.gamma2)
          /\ path_data.y0 = append_A(initial_condition(params.n, params.Nk1, params.e_fermi,
                                                       params.temperature, own_e),
                                     StateLen(params))

(***************************************************************************)
(* C24: for every number of time steps Nt >= 1, Nt < 20 included, and      *)
(* either value of user_out, the propagation loop of a path whose steps    *)
(* all succeed raises no error and stores exactly Nt snapshots, one per    *)
(* time index 0 .. Nt-1.                                                   *)
(***************************************************************************)
C24_LoopRunsForEveryNt ==
    /\ pc # "crashed"
    /\ (pc = "loop" /\ solver.ok)
       => /\ ti <= Nt
          /\ \A i \in 0 .. (ti - 1) : <<Nk2_idx, i>> \in stored
          /\ position = 0 => \A s \in stored : s[1] = Nk2_idx /\ s[2] < ti

(***************************************************************************)
(* C25: for every number of bands n >= 2, when rhs_of_sbe and              *)
(* initial_condition are called for a path, every entry                    *)
(* dipole_in_path[k,i,j] and e_in_path[k,i] with i, j in 0 .. n-1 has been *)
(* assigned from the band-structure callables or the numerical evaluator   *)
(* for that path: none is uninitialised or comes from elsewhere.           *)
(***************************************************************************)
assigned_for_path(x, position_) ==
    x.origin \in {"callable", "numerical"} /\ x.path = position_

C25_EveryEntryAssigned ==
    (pc = "idle" /\ rhs_case.stage \in {"assembled", "built"})
    => \A k \in 0 .. (rhs_case.Nk1 - 1) : \A i, j \in 0 .. (rhs_case.n - 1) :
          /\ assigned_for_path(rhs_case.arrays.dipole_in_path[k][i][j], rhs_case.position)
          /\ assigned_for_path(rhs_case.arrays.e_in_path[k][i], rhs_case.position)

(***************************************************************************)
(* C26: for every Hermitian dipole matrix d, complex off-diagonal entries  *)
(* included, and every Hermitian density matrix rho, the dipole-coupling   *)
(* tensor built by rhs_of_sbe contributes nothing to the time derivative   *)
(* of the trace of rho: the entries at the vectorized indices (m,m) of the *)
(* tensor applied to vec(rho) sum to zero.                                 *)
(***************************************************************************)
hermitian(a, n) == \A i, j \in 0 .. (n - 1) : a[i][j] = CConj(a[j][i])

C26_DipoleCouplingKeepsTrace ==
    (pc = "idle" /\ rhs_case.built = 1 /\ hermitian(rhs_case.density, rhs_case.n))
    => \A k \in 0 .. (rhs_case.Nk1 - 1) :
          /\ hermitian(rhs_case.dipole_in_path[k], rhs_case.n)
          /\ CSum([m \in 0 .. (rhs_case.n - 1) |->
                      tensor_applied(rhs_case.tensors.rhs_dipole, rhs_case.y, rhs_case.n,
                                     k, m * rhs_case.n + m)],
                  rhs_case.n - 1) = <<0, 0>>

(***************************************************************************)
(* C27: when the user supplies electric_field_function and therefore no    *)
(* E0, chirp, sigma or phase, the construction of ParamsParser reads no    *)
(* attribute of the record that has not been assigned earlier (the Fourier *)
(* window and the filename tail included), so that it ends by returning    *)
(* the record or by one of the parser's own exits, never by an             *)
(* AttributeError on the record.                                           *)
(***************************************************************************)
user_defined_field_given ==
    /\ parser.reader = "ParamsParser"
    /\ "electric_field_function" \in parser.UP.has
    /\ ~parser.UP.pulse

\* attributes of the record itself (not of the user parameters) that the
\* construction reads: self.sigma (line 156), self.E0_MVpcm (line 238)
record_attributes_read == {"sigma", "E0_MVpcm"}

C27_UserDefinedFieldConstructs ==
    (pc = "idle" /\ parser.outcome # "idle" /\ user_defined_field_given)
    => ~(parser.outcome = "AttributeError" /\ parser.message \in record_attributes_read)

(***************************************************************************)
(* C28: with fourier_window_function 'gaussian', the gaussian_window_width *)
(* of the parsed record is the user's gaussian_window_width when the user  *)
(* supplies one and the pulse width sigma only when the user supplies      *)
(* none; parsing halts for the missing width only when the field is        *)
(* user-defined and no width is given.                                     *)
(***************************************************************************)
C28_GaussianWindowWidth ==
    (pc = "idle" /\ parser.outcome # "idle" /\ parser.reader = "ParamsParser")
    => /\ "gaussian_window_width" \in parser.attrs
          => parser.P.gaussian_window_width
               = IF "gaussian_window_width" \in parser.UP.has
                 THEN "gaussian_window_width" ELSE "sigma"
       /\ parser.message = msg_gaussian
          => /\ "electric_field_function" \in parser.UP.has
             /\ "gaussian_window_width" \notin parser.UP.has

(***************************************************************************)
(* Construction of a band-structure system: __init__ of                    *)
(* NBandBandstructureDipoleSystem assigns the attributes of the object one *)
(* after the other.  system.attrs is the set of attributes assigned so     *)
(* far; reading an attribute outside it raises AttributeError.  Symbolic   *)
(* expressions are kept by their form: "0", "prefac", and the two formulas *)
(* of dipole_elements.  The prefactors are a matrix, or the single symbol  *)
(* the example systems default to, which cannot be subscripted.            *)
(***************************************************************************)
SystemFlags == {"dipole", "d0", "prefac", "None"}

SystemPrefactors == {"matrix", "symbol"}

jit_sequence ==
    << [target |-> "ejit", reads |-> "e"],
       [target |-> "dkxejit", reads |-> "dkxe"],
       [target |-> "dkyejit", reads |-> "dkye"],
       [target |-> "dipole_xjit", reads |-> "dipole_x"],
       [target |-> "dipole_yjit", reads |-> "dipole_y"],
       [target |-> "melxjit", reads |-> "matrix_element_x"],
       [target |-> "melyjit", reads |-> "matrix_element_y"] >>

sp_zeros(n) == [i \in 0..(n - 1) |-> [j \in 0..(n - 1) |-> "0"]]

SystemCases ==
    {[flag |-> f, n |-> n, prefac |-> p, outcome |-> "running", message |-> "",
      stage |-> "fields", attrs |-> {}, cursor |-> 0, local |-> <<>>,
      dipole_x |-> <<>>, matrix_element_x |-> <<>>] :
        f \in SystemFlags, n \in 1..MaxBands, p \in SystemPrefactors}

InitSystem ==
    /\ RunIdle
    /\ rhs_case = [evaluated |-> FALSE]
    /\ parser = parser_idle
    /\ spectrum = spectrum_idle
    /\ sweep = sweep_idle
    /\ system \in SystemCases

system_raise(kind, what) ==
    system' = [system EXCEPT !.outcome = kind, !.message = what]

\* lines 13 to 22: the arguments are stored, the free symbols collected
SystemFields ==
    /\ system.outcome = "running"
    /\ system.stage = "fields"
    /\ system' = [system EXCEPT
           !.attrs = {"prefac_x", "prefac_y", "e", "n", "flag", "freesymbols"},
           !.stage = "energy_derivative"]
    /\ UNCHANGED <<vars_of_run, rhs_case, parser, spectrum, sweep>>

\* line 24 with lines 39 to 45
energy_derivative ==
    /\ system.outcome = "running"
    /\ system.stage = "energy_derivative"
    /\ IF {"n", "e"} \subseteq system.attrs
       THEN system' = [system EXCEPT
                !.attrs = @ \cup {"dkxe", "dkye"},
                !.stage = "dipole_elements",
                !.cursor = 0,
                !.local = IF system.flag = "dipole"
                          THEN IF system.prefac = "matrix"
                               THEN [i \in 0..(system.n - 1) |->
                                        [j \in 0..(system.n - 1) |-> "prefac"]]
                               ELSE "symbol"
                          ELSE sp_zeros(system.n)]
       ELSE system_raise("AttributeError", "e")
    /\ UNCHANGED <<vars_of_run, rhs_case, parser, spectrum, sweep>>

\* lines 56 to 69: one pass of the loop body of dipole_elements
dipole_elements_entry ==
    /\ system.outcome = "running"
    /\ system.stage = "dipole_elements"
    /\ system.flag # "dipole"
    /\ system.cursor < system.n * system.n
    /\ LET i == system.cursor \div system.n
           j == system.cursor % system.n
           formula == IF system.flag = "d0" THEN "prefac*(e0j-e0i)/(ej-ei)"
                      ELSE "prefac/(ej-ei)"
       IN  IF i = j \/ system.flag \notin {"d0", "prefac"}
           THEN system' = [system EXCEPT !.cursor = @ + 1]
           ELSE IF system.flag = "d0" /\ "ejit" \notin system.attrs
           THEN system_raise("AttributeError", "ejit")
           ELSE IF system.prefac = "symbol"
           THEN system_raise("TypeError", "prefac_x")
           ELSE system' = [system EXCEPT !.cursor = @ + 1,
                                         !.local[i][j] = formula]
    /\ UNCHANGED <<vars_of_run, rhs_case, parser, spectrum, sweep>>

\* line 71 and the assignment of line 25
dipole_elements_return ==
    /\ system.outcome = "running"
    /\ system.stage = "dipole_elements"
    /\ system.flag = "dipole" \/ system.cursor = system.n * system.n
    /\ system' = [system EXCEPT
           !.attrs = @ \cup {"dipole_x", "dipole_y"},
           !.dipole_x = system.local,
           !.stage = "matrix_elements",
           !.cursor = 0,
           !.local = sp_zeros(system.n)]
    /\ UNCHANGED <<vars_of_run, rhs_case, parser, spectrum, sweep>>

\* lines 78 to 86: one pass of the loop body of matrix_elements
matrix_elements_entry ==
    /\ system.outcome = "running"
    /\ system.stage = "matrix_elements"
    /\ system.cursor < system.n * system.n
    /\ LET i == system.cursor \div system.n
           j == system.cursor % system.n
       IN  IF i = j
           THEN IF "dkxe" \in system.attrs
                THEN system' = [system EXCEPT !.cursor = @ + 1,
                                              !.local[i][j] = "dkxe"]
                ELSE system_raise("AttributeError", "dkxe")
           ELSE IF "dipole_x" \notin system.attrs
           THEN system_raise("AttributeError", "dipole_x")
           ELSE IF system.flag = "dipole" /\ system.prefac = "symbol"
           THEN system_raise("TypeError", "dipole_x")
           ELSE system' = [system EXCEPT
                    !.cursor = @ + 1,
                    !.local[i][j] = IF system.dipole_x[i][j] = "0" THEN "0"
                                    ELSE "I*dipole*(ej-ei)"]
    /\ UNCHANGED <<vars_of_run, rhs_case, parser, spectrum, sweep>>

\* line 89 and the assignment of line 26
matrix_elements_return ==
    /\ system.outcome = "running"
    /\ system.stage = "matrix_elements"
    /\ system.cursor = system.n * system.n
    /\ system' = [system EXCEPT
           !.attrs = @ \cup {"matrix_element_x", "matrix_element_y"},
           !.matrix_element_x = system.local,
           !.stage = "jit",
           !.cursor = 1,
           !.local = <<>>]
    /\ UNCHANGED <<vars_of_run, rhs_case, parser, spectrum, sweep>>

\* lines 28 to 37: the callables are compiled, ejit first
list_to_njit_functions ==
    /\ system.outcome = "running"
    /\ system.stage = "jit"
    /\ LET step == jit_sequence[system.cursor]
       IN  IF step.reads \notin system.attrs
           THEN system_raise("AttributeError", step.reads)
           ELSE system' = [system EXCEPT
                    !.attrs = @ \cup {step.target},
                    !.cursor = @ + 1,
                    !.stage = IF system.cursor = Len(jit_sequence)
                              THEN "constructed" ELSE "jit",
                    !.outcome = IF system.cursor = Len(jit_sequence)
                                THEN "done" ELSE "running"]
    /\ UNCHANGED <<vars_of_run, rhs_case, parser, spectrum, sweep>>

NextSystem ==
    \/ SystemFields
    \/ energy_derivative
    \/ dipole_elements_entry
    \/ dipole_elements_return
    \/ matrix_elements_entry
    \/ matrix_elements_return
    \/ list_to_njit_functions

SpecSystem == InitSystem /\ [][NextSystem]_vars

(***************************************************************************)
(* C29: NBandBandstructureDipoleSystem can be constructed with each of the *)
(* flags 'dipole', 'd0' and 'prefac': no attribute is read before the      *)
(* construction sequence has assigned it, so with prefactor matrices the   *)
(* construction raises nothing, and for 'd0' and 'prefac' every diagonal   *)
(* dipole element of the constructed system is zero.                       *)
(***************************************************************************)
C29_ConstructsWithEveryFlag ==
    (system.outcome # "idle" /\ system.flag \in {"dipole", "d0", "prefac"}) =>
        /\ system.outcome # "AttributeError"
        /\ system.prefac = "matrix" => system.outcome \in {"running", "done"}
        /\ (system.outcome = "done" /\ system.flag \in {"d0", "prefac"}) =>
               \A i \in 0..(system.n - 1) : system.dipole_x[i][i] = "0"

(***************************************************************************)
(* chirp_phasesweep: a double loop over a list of chirps and a list of     *)
(* phases that runs the solver in one directory per pair.  A chirp or      *)
(* phase is an integer number of tenths of the last digit its directory    *)
(* name prints ('{:1.3f}' and '{:1.2f}'); a formatted number is its sign   *)
(* and its rounded magnitude, so 0 and 4 print alike and -14 prints with a *)
(* minus sign.  The values avoid the ties of rounding.  The working        *)
(* directory is kept relative to the directory the sweep starts in:        *)
(* above levels up, then the names in below.                               *)
(***************************************************************************)
MaxChirps == 2

MaxPhases == 2

SweepValues == {0 - 14, 0, 4}

format_fixed(x) ==
    LET magnitude == IF x < 0 THEN 0 - x ELSE x
    IN  [negative |-> x < 0, digits |-> (magnitude + 5) \div 10]

dirname_chirp(chirp) == [prefix |-> "chirp_", number |-> format_fixed(chirp)]

dirname_phase(phase) == [prefix |-> "phase_", number |-> format_fixed(phase)]

starting_directory == [above |-> 0, below |-> <<>>]

os_chdir(cwd, dirname) == [cwd EXCEPT !.below = Append(@, dirname)]

os_chdir_parent(cwd) ==
    IF cwd.below = <<>>
    THEN [cwd EXCEPT !.above = @ + 1]
    ELSE [cwd EXCEPT !.below = SubSeq(@, 1, Len(@) - 1)]

\* os.mkdir unless os.path.exists
mkdir_if_missing(dirs, cwd, dirname) == dirs \cup {os_chdir(cwd, dirname)}

SweepLists(values, longest) == UNION {[1..len -> values] : len \in 0..longest}

\* the directories an earlier sweep over the same lists has left behind
sweep_directories(chirplist, phaselist) ==
    {os_chdir(starting_directory, dirname_chirp(chirplist[a])) :
         a \in 1..Len(chirplist)}
    \cup {os_chdir(os_chdir(starting_directory, dirname_chirp(chirplist[a])),
                   dirname_phase(phaselist[b])) :
              a \in 1..Len(chirplist), b \in 1..Len(phaselist)}

sweep_start(chirplist, phaselist, dirs) ==
    [chirplist |-> chirplist, phaselist |-> phaselist, chirp_idx |-> 1,
     phase_idx |-> 1, stage |-> "chirp", cwd |-> starting_directory,
     dirs |-> dirs, params |-> [chirp |-> 0, phase |-> 0], calls |-> <<>>,
     outcome |-> "running"]

\* a sweep starts in an empty directory or in the one an earlier sweep left
InitSweep ==
    /\ RunIdle
    /\ rhs_case = [evaluated |-> FALSE]
    /\ parser = parser_idle
    /\ spectrum = spectrum_idle
    /\ system = system_idle
    /\ \E cl \in SweepLists(SweepValues, MaxChirps) :
       \E pl \in SweepLists(SweepValues, MaxPhases) :
       \E rerun \in BOOLEAN :
           sweep = sweep_start(cl, pl, IF rerun THEN sweep_directories(cl, pl)
                                       ELSE {})

\* lines 7 to 13: the next chirp is set and its directory entered
SweepEnterChirp ==
    /\ sweep.outcome = "running"
    /\ sweep.stage = "chirp"
    /\ sweep.chirp_idx <= Len(sweep.chirplist)
    /\ LET chirp == sweep.chirplist[sweep.chirp_idx]
       IN  sweep' = [sweep EXCEPT
               !.params.chirp = chirp,
               !.dirs = mkdir_if_missing(@, sweep.cwd, dirname_chirp(chirp)),
               !.cwd = os_chdir(@, dirname_chirp(chirp)),
               !.phase_idx = 1,
               !.stage = "phase"]
    /\ UNCHANGED <<vars_of_run, rhs_case, parser, spectrum, system>>

\* lines 15 to 21: the next phase is set and its directory entered
SweepEnterPhase ==
    /\ sweep.outcome = "running"
    /\ sweep.stage = "phase"
    /\ sweep.phase_idx <= Len(sweep.phaselist)
    /\ LET phase == sweep.phaselist[sweep.phase_idx]
       IN  sweep' = [sweep EXCEPT
               !.params.phase = phase,
               !.dirs = mkdir_if_missing(@, sweep.cwd, dirname_phase(phase)),
               !.cwd = os_chdir(@, dirname_phase(phase)),
               !.stage = "solve"]
    /\ UNCHANGED <<vars_of_run, rhs_case, parser, spectrum, system>>

\* line 23: the solver runs with params in the working directory; it leaves
\* both as they are and returns, or raises and ends the sweep
SweepSolve ==
    /\ sweep.outcome = "running"
    /\ sweep.stage = "solve"
    /\ \E returns \in BOOLEAN :
           sweep' = [sweep EXCEPT
               !.calls = Append(@, [params |-> sweep.params, cwd |-> sweep.cwd,
                                    returned |-> returns]),
               !.stage = IF returns THEN "solved" ELSE "solve",
               !.outcome = IF returns THEN "running" ELSE "raised"]
    /\ UNCHANGED <<vars_of_run, rhs_case, parser, spectrum, system>>

\* line 24 without the change of directory
SweepLeavePhase_staying_in_directory ==
    /\ sweep.outcome = "running"
    /\ sweep.stage = "solved"
    /\ sweep' = [sweep EXCEPT !.phase_idx = @ + 1, !.stage = "phase"]
    /\ UNCHANGED <<vars_of_run, rhs_case, parser, spectrum, system>>

\* line 24: back to the directory of the chirp
SweepLeavePhase ==
    /\ sweep.outcome = "running"
    /\ sweep.stage = "solved"
    /\ sweep' = [sweep EXCEPT
           !.cwd = os_chdir_parent(@),
           !.phase_idx = @ + 1,
           !.stage = "phase"]
    /\ UNCHANGED <<vars_of_run, rhs_case, parser, spectrum, system>>

\* line 26, after the last phase: back to the starting directory
SweepLeaveChirp ==
    /\ sweep.outcome = "running"
    /\ sweep.stage = "phase"
    /\ sweep.phase_idx > Len(sweep.phaselist)
    /\ sweep' = [sweep EXCEPT
           !.cwd = os_chdir_parent(@),
           !.chirp_idx = @ + 1,
           !.stage = "chirp"]
    /\ UNCHANGED <<vars_of_run, rhs_case, parser, spectrum, system>>

\* the outer loop is exhausted and chirp_phasesweep returns
SweepReturn ==
    /\ sweep.outcome = "running"
    /\ sweep.stage = "chirp"
    /\ sweep.chirp_idx > Len(sweep.chirplist)
    /\ sweep' = [sweep EXCEPT !.outcome = "done", !.stage = "returned"]
    /\ UNCHANGED <<vars_of_run, rhs_case, parser, spectrum, system>>

NextSweep ==
    \/ SweepEnterChirp
    \/ SweepEnterPhase
    \/ SweepSolve
    \/ SweepLeavePhase
    \/ SweepLeaveChirp
    \/ SweepReturn

SpecSweep == InitSweep /\ [][NextSweep]_vars

\* the k-th pair of the sweep: chirps in list order, phases innermost
sweep_pair(k) ==
    [chirp |-> sweep.chirplist[((k - 1) \div Len(sweep.phaselist)) + 1],
     phase |-> sweep.phaselist[((k - 1) % Len(sweep.phaselist)) + 1]]

(***************************************************************************)
(* C30: chirp_phasesweep calls the solver once per (chirp, phase) pair, in *)
(* list order with the phase as the inner loop: the k-th call is made with *)
(* params.chirp and params.phase set to the k-th pair and in the directory *)
(* chirp_<chirp>/phase_<phase> below the starting directory; a call is     *)
(* made only after every earlier call has returned, a sweep that returns   *)
(* has made one call per pair, and it ends in the starting directory.      *)
(***************************************************************************)
C30_OneSolverCallPerPair ==
    sweep.outcome # "idle" =>
        /\ Len(sweep.calls) <= Len(sweep.chirplist) * Len(sweep.phaselist)
        /\ \A k \in 1..Len(sweep.calls) :
               /\ sweep.calls[k].params = sweep_pair(k)
               /\ sweep.calls[k].cwd =
                      os_chdir(os_chdir(starting_directory,
                                        dirname_chirp(sweep_pair(k).chirp)),
                               dirname_phase(sweep_pair(k).phase))
               /\ k < Len(sweep.calls) => sweep.calls[k].returned
        /\ sweep.outcome = "done" =>
               /\ Len(sweep.calls) = Len(sweep.chirplist) * Len(sweep.phaselist)
               /\ sweep.cwd = starting_directory

\* a finished sweep over two chirps that share a directory and two phases,
\* one of them negative, run a second time over the same directories
C30_Witness ==
    /\ sweep.outcome = "done"
    /\ sweep.chirplist = <<0, 4>>
    /\ sweep.phaselist = <<0 - 14, 4>>
    /\ Len(sweep.calls) = 4
    /\ sweep.calls[4].cwd.below = <<dirname_chirp(0), dirname_phase(0)>>

====
